---------------------------- MODULE Spec2Model ----------------------------
(***************************************************************************)
(* A model of imagebabble.hpp: the frame codec (zmq_ext::send / recv of a  *)
(* frame as a multi-part message), and the reliable execution model        *)
(* (reliable_image_server::publish, reliable_image_client::receive).       *)
(*                                                                         *)
(* Text is a sequence of one-character strings; a message part is such a   *)
(* sequence together with the "more parts follow" flag; a socket's inbound *)
(* queue is a flat sequence of parts, read one part per recv, as ZMQ       *)
(* delivers it.                                                            *)
(***************************************************************************)
EXTENDS Integers, Sequences, FiniteSets, TLC

(***************************************************************************)
(* Bounds of the model.                                                    *)
(***************************************************************************)
\* Longest array of image headers in a frame of the codec specification.
MaxHeaders == 2
\* Longest array of image data buffers in a frame of the codec specification.
MaxBuffers == 2
\* Most frames queued on the connection of the stream specification.
MaxQueued == 2
\* Most publish calls of the reliable server in one behaviour.
MaxPublish == 2
\* Most receive calls of one reliable client in one behaviour.
MaxReceive == 2

\* Most calls of the discovery client in a behaviour.
MaxCalls == 3

\* Most requests sent with a foreign version tag in a behaviour.
MaxForeign == 1

\* Most calls of the discovery client in a behaviour in which its calls
\* may time out.
MaxTimed == 2

\* Most calls of the discovery client in a behaviour in which its entries
\* may hold empty strings.
MaxEncoded == 1

(***************************************************************************)
(* Program constants.                                                      *)
(***************************************************************************)
\* (std::numeric_limits<size_t>::max)() as passed for max_elems; the model's
\* counts stay far below it, so the largest 32-bit integer stands for it.
SizeMax == 2147483647
\* CLOCKS_PER_SEC of <ctime> (1000 with the MSVC runtime the file targets).
ClocksPerSec == 1000

(***************************************************************************)
(* Text: std::string, std::ostream << and std::istream >>.                 *)
(***************************************************************************)
DigitChars == <<"0", "1", "2", "3", "4", "5", "6", "7", "8", "9">>

IsDigit(c) == \E i \in 1..10 : DigitChars[i] = c

DigitVal(c) == (CHOOSE i \in 1..10 : DigitChars[i] = c) - 1

\* std::isspace in the classic locale, over the characters the model uses.
IsSpace(c) == c \in {" ", "\t", "\n"}

Min(a, b) == IF a <= b THEN a ELSE b

RECURSIVE StrOfNat(_)
\* ostream << of a non-negative integer: its decimal digits.
StrOfNat(n) ==
  IF n < 10 THEN <<DigitChars[n + 1]>>
  ELSE StrOfNat(n \div 10) \o <<DigitChars[(n % 10) + 1]>>

\* ostream << int.
StrOfInt(i) == IF i < 0 THEN <<"-">> \o StrOfNat(0 - i) ELSE StrOfNat(i)

\* An input stream over a part's bytes: the unread text and the failbit.
IStream(s) == [buf |-> s, fail |-> FALSE]

RECURSIVE SkipWs(_)
\* The sentry's whitespace skip.
SkipWs(s) == IF s # <<>> /\ IsSpace(Head(s)) THEN SkipWs(Tail(s)) ELSE s

RECURSIVE TakeDigits(_, _)
\* The longest prefix of digits of s, as [val, rest], starting from value acc.
TakeDigits(s, acc) ==
  IF s # <<>> /\ IsDigit(Head(s))
  THEN TakeDigits(Tail(s), acc * 10 + DigitVal(Head(s)))
  ELSE [val |-> acc, rest |-> s]

RECURSIVE TakeWord(_, _)
\* The longest prefix of non-whitespace characters of s, as [val, rest].
TakeWord(s, acc) ==
  IF s # <<>> /\ ~IsSpace(Head(s))
  THEN TakeWord(Tail(s), Append(acc, Head(s)))
  ELSE [val |-> acc, rest |-> s]

\* The value and the stream after a successful istream >> int: the digits
\* d read, negated after a minus sign.
IntResult(neg, d) ==
  [is |-> [buf |-> d.rest, fail |-> FALSE], val |-> IF neg THEN 0 - d.val ELSE d.val]

\* istream >> int once the sentry has skipped to s, body being s past its
\* sign: with no digit the parse fails and stores 0.
ExtractDigits(s, body) ==
  IF body = <<>> \/ ~IsDigit(Head(body))
  THEN [is |-> [buf |-> body, fail |-> TRUE], val |-> 0]
  ELSE IntResult(Head(s) = "-", TakeDigits(body, 0))

\* istream >> int at the text s the sentry skipped to: a stream that ends
\* in the skip fails and leaves the target as it was.
ExtractIntAt(s, old) ==
  IF s = <<>> THEN [is |-> [buf |-> s, fail |-> TRUE], val |-> old]
  ELSE ExtractDigits(s, IF Head(s) \in {"-", "+"} THEN Tail(s) ELSE s)

\* istream >> int, the target holding old before. A stream that has failed
\* leaves the target as it was.
ExtractInt(is, old) ==
  IF is.fail THEN [is |-> is, val |-> old] ELSE ExtractIntAt(SkipWs(is.buf), old)

\* istream >> std::string at the text s the sentry skipped to.
ExtractWordAt(s, old) ==
  IF s = <<>> THEN [is |-> [buf |-> s, fail |-> TRUE], val |-> old]
  ELSE [is |-> [buf |-> TakeWord(s, <<>>).rest, fail |-> FALSE],
        val |-> TakeWord(s, <<>>).val]

\* istream >> std::string: skips whitespace, then reads up to the next
\* whitespace. The string is erased once the sentry has succeeded; a stream
\* that has failed or ends in the skip leaves it as it was.
ExtractWord(is, old) ==
  IF is.fail THEN [is |-> is, val |-> old] ELSE ExtractWordAt(SkipWs(is.buf), old)

(***************************************************************************)
(* image_header, image_data, frame, frame_options.                         *)
(***************************************************************************)
\* image_header(w, h, c, bc, n).
image_header(w, h, c, bc, n) ==
  [name |-> n, width |-> w, height |-> h, channels |-> c, bytes_per_channel |-> bc]

\* image_header(): the default constructor.
DefaultHeader == image_header(0, 0, 0, 0, <<>>)

\* The largest int.
IntMax == 2147483647

\* An int that holds n.
IntOf(n) == [val |-> n, overflow |-> FALSE]

\* The int product a * b of two ints that are not negative, junk being
\* what the build yields when the product does not fit: signed overflow
\* has no defined result. A product that overflowed stays undefined.
MulInt(a, b, junk) ==
  IF a.overflow \/ (b # 0 /\ a.val > IntMax \div b)
  THEN [val |-> junk, overflow |-> TRUE]
  ELSE [val |-> a.val * b, overflow |-> FALSE]

\* image_header::get_total_bytes():
\* _bytes_per_channel * _channels * _width * _height, left to right.
get_total_bytes(i, junk) ==
  MulInt(MulInt(MulInt(IntOf(i.bytes_per_channel), i.channels, junk),
                i.width, junk),
         i.height, junk)

\* image_data(): an owned, empty buffer.
DefaultData == [pre_allocated |-> FALSE, bytes |-> <<>>]

\* image_data(void *data, int length): a buffer over caller memory, whose
\* size stays the length it was built with.
BorrowedData(mem) == [pre_allocated |-> TRUE, bytes |-> mem]

\* An owned buffer holding the given bytes.
OwnedData(b) == [pre_allocated |-> FALSE, bytes |-> b]

\* frame(ih, id, ud).
MkFrame(ih, id, ud) == [headers |-> ih, data |-> id, user_data |-> ud]

\* frame(): the empty frame.
EmptyFrame == MkFrame(<<>>, <<>>, <<>>)

\* frame_options with the three switches.
MkOptions(sh, sd, su) ==
  [skip_headers |-> sh, skip_data |-> sd, skip_user_data |-> su]

\* frame_options(): nothing skipped.
DefaultOptions == MkOptions(FALSE, FALSE, FALSE)

AllOptions == [skip_headers : BOOLEAN, skip_data : BOOLEAN, skip_user_data : BOOLEAN]

\* operator<<(std::ostream &, const image_header &).
HeaderToStr(i) ==
  StrOfInt(i.width) \o <<" ">> \o StrOfInt(i.height) \o <<" ">>
    \o StrOfInt(i.channels) \o <<" ">> \o StrOfInt(i.bytes_per_channel)
    \o <<" ">> \o i.name

\* operator>>: is >> n; i.set_name(n), after the four numbers.
HeaderName(w, h, c, d) ==
  image_header(w, h, c, d.val, ExtractWord(d.is, <<>>).val)

\* operator>>: is >> field; i.set_bytes_per_channel(field).
HeaderBytes(w, h, c) == HeaderName(w, h, c.val, ExtractInt(c.is, c.val))

\* operator>>: is >> field; i.set_number_of_channels(field).
HeaderChannels(w, b) == HeaderBytes(w, b.val, ExtractInt(b.is, b.val))

\* operator>>: is >> field; i.set_height(field).
HeaderHeight(a) == HeaderChannels(a.val, ExtractInt(a.is, a.val))

\* operator>>(std::istream &, image_header &) on the text s; junk is the
\* value the uninitialised local "field" happens to hold.
StrToHeader(s, junk) == HeaderHeight(ExtractInt(IStream(s), junk))

(***************************************************************************)
(* zmq_ext: sending. Every send operator yields the parts it appends to    *)
(* the socket's outgoing message, in order.                                *)
(***************************************************************************)
\* One message part; more is ZMQ_SNDMORE / ZMQ_RCVMORE.
Part(d, more) == [data |-> d, more |-> more]

\* zmq_ext::send(s, const std::string &, flags).
SendString(v, more) == <<Part(v, more)>>

\* zmq_ext::send(s, const empty &, flags).
SendEmpty(more) == <<Part(<<>>, more)>>

\* The generic zmq_ext::send<T> on a size_t: the text of ostr << v.
SendCount(n, more) == <<Part(StrOfNat(n), more)>>

\* The generic zmq_ext::send<T> on an image_header.
SendHeader(h, more) == <<Part(HeaderToStr(h), more)>>

\* zmq_ext::send(s, const image_data &, flags): the buffer's bytes as they are.
SendData(v, more) == <<Part(v.bytes, more)>>

\* A send that hands the caller's own message to the socket, which leaves
\* the caller's buffer without its bytes.
DataNullified(v) == [v EXCEPT !.bytes = <<>>]

\* What zmq_ext::send(image_data) leaves in the caller's buffer: it sends a
\* copy that shares the bytes, so the caller's buffer keeps them.
DataAfterSend(v) == v

RECURSIVE SendHeaderElems(_, _, _)
\* The element loop of send_array over image headers, elements i..nelems.
SendHeaderElems(c, i, nelems) ==
  IF i > nelems THEN <<>>
  ELSE SendHeader(c[i], TRUE) \o SendHeaderElems(c, i + 1, nelems)

RECURSIVE SendDataElems(_, _, _)
\* The element loop of send_array over image data, elements i..nelems.
SendDataElems(c, i, nelems) ==
  IF i > nelems THEN <<>>
  ELSE SendData(c[i], TRUE) \o SendDataElems(c, i + 1, nelems)

\* The closing part of send_array: an empty last part unless more follow.
SendArrayEnd(more) == IF more THEN <<>> ELSE SendEmpty(FALSE)

\* zmq_ext::send_array on std::vector<image_header>.
SendHeaderArray(c, max_elems, more) ==
  LET nelems == Min(Len(c), max_elems)
  IN  SendCount(nelems, TRUE) \o SendHeaderElems(c, 1, nelems) \o SendArrayEnd(more)

\* zmq_ext::send_array on std::vector<image_data>.
SendDataArray(c, max_elems, more) ==
  LET nelems == Min(Len(c), max_elems)
  IN  SendCount(nelems, TRUE) \o SendDataElems(c, 1, nelems) \o SendArrayEnd(more)

\* zmq_ext::send(s, const frame_options &, const frame &): flags is 0 at
\* every call, so the delimiter ends the message.
SendFrame(o, f) ==
  (IF o.skip_user_data THEN SendEmpty(TRUE) ELSE SendString(f.user_data, TRUE))
    \o SendHeaderArray(f.headers, IF o.skip_headers THEN 0 ELSE Len(f.headers), TRUE)
    \o SendDataArray(f.data, IF o.skip_data THEN 0 ELSE Len(f.data), TRUE)
    \o SendEmpty(FALSE)

\* The frame the sender holds after zmq_ext::send(frame).
FrameAfterSend(f) ==
  [f EXCEPT !.data = [i \in 1..Len(f.data) |-> DataAfterSend(f.data[i])]]

(***************************************************************************)
(* zmq_ext: receiving. A socket is its inbound queue q of parts and the    *)
(* flag blocked: a recv with flags 0 on an empty queue does not return.    *)
(***************************************************************************)
Socket(q) == [q |-> q, blocked |-> FALSE]

\* zmq::socket_t::recv(&msg) / zmq_recv with flags 0: the next part.
RecvPart(st) ==
  IF st.blocked \/ st.q = <<>>
  THEN [st |-> [q |-> st.q, blocked |-> TRUE], got |-> FALSE, data |-> <<>>]
  ELSE [st |-> [q |-> Tail(st.q), blocked |-> FALSE], got |-> TRUE,
        data |-> Head(st.q).data]

\* zmq_ext::recv(s, drop &), r being the part read.
DropOf(r) == [st |-> r.st, ok |-> r.got]

RecvDrop(st) == DropOf(RecvPart(st))

\* zmq_ext::recv(s, std::string &), r being the part read.
StringOf(r, v) == [st |-> r.st, ok |-> r.got, val |-> IF r.got THEN r.data ELSE v]

RecvString(st, v) == StringOf(RecvPart(st), v)

\* A size_t read from text: a negative number wraps around.
SizeOf(v) == IF v < 0 THEN SizeMax ELSE v

\* The generic zmq_ext::recv<T> on a size_t, r being the part read.
CountOf(r, junk) ==
  [st |-> r.st, ok |-> r.got,
   val |-> IF r.got THEN SizeOf(ExtractInt(IStream(r.data), junk).val) ELSE junk]

RecvCount(st, junk) == CountOf(RecvPart(st), junk)

\* The generic zmq_ext::recv<T> on an image_header, r being the part read.
HeaderOf(r, v, junk) ==
  [st |-> r.st, ok |-> r.got, val |-> IF r.got THEN StrToHeader(r.data, junk) ELSE v]

RecvHeader(st, v, junk) == HeaderOf(RecvPart(st), v, junk)

\* A receive into a borrowed buffer that writes nothing.
CopyNone(mem, src) == mem

\* The bytes a borrowed buffer of memory mem holds after zmq_recv copied a
\* part of bytes src into it: at most Len(mem) bytes are written.
CopyInto(mem, src) ==
  [i \in 1..Len(mem) |-> IF i <= Min(Len(src), Len(mem)) THEN src[i] ELSE mem[i]]

\* zmq_ext::recv(s, image_data &), r being the part read: a borrowed buffer
\* takes what fits and reports whether all of it did.
DataOf(r, v) ==
  IF ~r.got THEN [st |-> r.st, ok |-> FALSE, val |-> v]
  ELSE IF v.pre_allocated
       THEN [st |-> r.st, ok |-> Len(r.data) <= Len(v.bytes),
             val |-> [v EXCEPT !.bytes = CopyInto(v.bytes, r.data)]]
       ELSE [st |-> r.st, ok |-> TRUE, val |-> [v EXCEPT !.bytes = r.data]]

RecvData(st, v) == DataOf(RecvPart(st), v)

\* std::vector<T>::resize(n) with default-constructed new elements.
Resize(c, n, dflt) == [i \in 1..n |-> IF i <= Len(c) THEN c[i] ELSE dflt]

RECURSIVE RecvHeaderElems(_, _, _, _, _, _)
\* recv_array over image headers: element i has been received as r.
HeaderElemsNext(r, c, i, fit, all_ok, junk) ==
  RecvHeaderElems(r.st, [c EXCEPT ![i] = r.val], i + 1, fit, all_ok /\ r.ok, junk)

\* The element loop of recv_array over image headers, elements i..fit.
RecvHeaderElems(st, c, i, fit, all_ok, junk) ==
  IF i > fit \/ st.blocked THEN [st |-> st, ok |-> all_ok, c |-> c]
  ELSE HeaderElemsNext(RecvHeader(st, c[i], junk), c, i, fit, all_ok, junk)

RECURSIVE RecvDataElems(_, _, _, _, _)
\* recv_array over image data: element i has been received as r.
DataElemsNext(r, c, i, fit, all_ok) ==
  RecvDataElems(r.st, [c EXCEPT ![i] = r.val], i + 1, fit, all_ok /\ r.ok)

\* The element loop of recv_array over image data, elements i..fit.
RecvDataElems(st, c, i, fit, all_ok) ==
  IF i > fit \/ st.blocked THEN [st |-> st, ok |-> all_ok, c |-> c]
  ELSE DataElemsNext(RecvData(st, c[i]), c, i, fit, all_ok)

\* A drop loop that leaves the parts that do not fit on the socket.
DropElemsNone(st, i, count, all_ok) == [st |-> st, ok |-> all_ok]

RECURSIVE DropElems(_, _, _, _)
\* recv_array's drop loop: one more part has been dropped as r.
DropElemsNext(r, i, count, all_ok) == DropElems(r.st, i + 1, count, all_ok /\ r.ok)

\* The loop of recv_array that drops whatever does not fit: elements
\* i+1..count.
DropElems(st, i, count, all_ok) ==
  IF i >= count \/ st.blocked THEN [st |-> st, ok |-> all_ok]
  ELSE DropElemsNext(RecvDrop(st), i, count, all_ok)

\* The result of recv_array: the socket and all_ok after the drop loop d,
\* the vector as the element loop left it.
ArrayResult(d, c) == [st |-> d.st, ok |-> d.ok, c |-> c]

\* recv_array after its element loop e: the drop loop.
ArrayDrop(e, fit, count) == ArrayResult(DropElems(e.st, fit, count, e.ok), e.c)

\* recv_array on std::vector<image_header> after the count n was received:
\* fit = min(count, max_elems), c.resize(fit), the element loop.
HeaderArrayFit(n, c, fit, junk) ==
  ArrayDrop(RecvHeaderElems(n.st, Resize(c, IF n.st.blocked THEN 0 ELSE fit, DefaultHeader),
                            1, fit, n.ok, junk),
            fit, n.val)

HeaderArrayCount(n, c, max_elems, junk) ==
  HeaderArrayFit(n, c, Min(n.val, max_elems), junk)

\* zmq_ext::recv_array on std::vector<image_header>.
RecvHeaderArray(st, c, max_elems, junk) ==
  HeaderArrayCount(RecvCount(st, junk), c, max_elems, junk)

\* recv_array on std::vector<image_data> after the count n was received.
DataArrayFit(n, c, fit) ==
  ArrayDrop(RecvDataElems(n.st, Resize(c, IF n.st.blocked THEN 0 ELSE fit, DefaultData),
                          1, fit, n.ok),
            fit, n.val)

DataArrayCount(n, c, max_elems) == DataArrayFit(n, c, Min(n.val, max_elems))

\* zmq_ext::recv_array on std::vector<image_data>.
RecvDataArray(st, c, max_elems, junk) ==
  DataArrayCount(RecvCount(st, junk), c, max_elems)

\* recv(frame) with skip_user_data: the part r was dropped and the frame's
\* string is not assigned.
UserDataDropped(r, f) == [st |-> r.st, ok |-> r.ok, val |-> f.user_data]

\* recv(frame): the user data part, dropped or assigned to the frame's string.
RecvUserData(st, o, f) ==
  IF o.skip_user_data THEN UserDataDropped(RecvDrop(st), f)
  ELSE RecvString(st, f.user_data)

\* A recv(frame) that leaves the delimiter on the socket.
FrameEndKeep(u, h, d) ==
  [st |-> d.st, ok |-> u.ok /\ h.ok /\ d.ok, f |-> MkFrame(h.c, d.c, u.val)]

\* recv(frame) after user data u, headers h and data d: the delimiter is
\* dropped and its result ignored.
FrameEnd(u, h, d) ==
  [st |-> RecvDrop(d.st).st, ok |-> u.ok /\ h.ok /\ d.ok,
   f |-> MkFrame(h.c, d.c, u.val)]

\* recv(frame) after user data u and headers h: the image data array.
FrameData(u, h, o, f, junk) ==
  FrameEnd(u, h, RecvDataArray(h.st, f.data, IF o.skip_data THEN 0 ELSE SizeMax, junk))

\* recv(frame) after user data u: the image header array.
FrameHeaders(u, o, f, junk) ==
  FrameData(u, RecvHeaderArray(u.st, f.headers,
                               IF o.skip_headers THEN 0 ELSE SizeMax, junk),
            o, f, junk)

\* zmq_ext::recv(s, const frame_options &, frame &): the socket after the
\* call, the value returned and the frame as the call leaves it.
RecvFrame(st, o, f, junk) == FrameHeaders(RecvUserData(st, o, f), o, f, junk)

\* zmq_ext::is_data_pending(s, 0): whether a part can be read now.
IsDataPending(q) == q # <<>>

(***************************************************************************)
(* discovery_info, its text form and the parts of the discovery messages.  *)
(***************************************************************************)
\* network_entity::e_protocol.
PROTO_IMAGE_FAST == 0

PROTO_IMAGE_RELIABLE == 1

PROTO_USER == 100

\* IMAGEBABBLE_IMAGE_PROTO_VERSION.
ImageVersion == <<"1">>

\* IMAGEBABBLE_DISCOVERY_PROTO_VERSION.
DiscoveryVersion == <<"1">>

\* discovery_info(name, addr, proto, image_version).
discovery_info(name, addr, proto, image_version) ==
  [name |-> name, address |-> addr, protocol_type |-> proto,
   protocol_version |-> image_version]

\* discovery_info().
DefaultInfo == discovery_info(<<>>, <<>>, PROTO_USER, ImageVersion)

\* operator<<(std::ostream &, const discovery_info &).
InfoToStr(i) ==
  i.name \o <<" ">> \o i.address \o <<" ">> \o i.protocol_version
    \o <<" ">> \o StrOfInt(i.protocol_type)

\* operator>>: is >> field; i.set_protocol_type(field), after the three
\* strings n, a, v.
InfoType(n, a, v, field) == discovery_info(n.val, a.val, field.val, v.val)

\* operator>>: the third is >> n; i.set_protocol_version(n).
InfoVersion(n, a, v, junk) == InfoType(n, a, v, ExtractInt(v.is, junk))

\* operator>>: the second is >> n; i.set_address(n). The local n keeps
\* its value when an extraction fails.
InfoAddress(n, a, junk) == InfoVersion(n, a, ExtractWord(a.is, a.val), junk)

\* operator>>: the first is >> n; i.set_name(n).
InfoName(n, junk) == InfoAddress(n, ExtractWord(n.is, n.val), junk)

\* operator>>(std::istream &, discovery_info &) on the text s; junk is the
\* value the uninitialised int field holds.
StrToInfo(s, junk) == InfoName(ExtractWord(IStream(s), <<>>), junk)

\* ostream << bool.
StrOfBool(b) == IF b THEN <<"1">> ELSE <<"0">>

\* istream >> bool after the number r was extracted: 0 is false, another
\* number true; when nothing could be extracted the target holds junk.
BoolOfInt(r, junk) == IF r.is.fail THEN junk ELSE r.val # 0

\* istream >> bool, the target being uninitialised.
ExtractBool(is, junk) == BoolOfInt(ExtractInt(is, 0), junk)

\* The generic zmq_ext::send<T> on a bool.
SendBool(b, more) == <<Part(StrOfBool(b), more)>>

\* The generic zmq_ext::send<T> on a discovery_info.
SendInfo(i, more) == <<Part(InfoToStr(i), more)>>

RECURSIVE SendInfoElems(_, _, _)
\* The element loop of send_array over discovery_info, elements i..nelems.
SendInfoElems(c, i, nelems) ==
  IF i > nelems THEN <<>>
  ELSE SendInfo(c[i], TRUE) \o SendInfoElems(c, i + 1, nelems)

\* zmq_ext::send_array on std::vector<discovery_info>.
SendInfoArray(c, max_elems, more) ==
  LET nelems == Min(Len(c), max_elems)
  IN  SendCount(nelems, TRUE) \o SendInfoElems(c, 1, nelems) \o SendArrayEnd(more)

\* The generic zmq_ext::recv<T> on a bool, r being the part read.
BoolOf(r, junk) ==
  [st |-> r.st, ok |-> r.got,
   val |-> IF r.got THEN ExtractBool(IStream(r.data), junk) ELSE junk]

RecvBool(st, junk) == BoolOf(RecvPart(st), junk)

\* The generic zmq_ext::recv<T> on a discovery_info, r being the part read.
InfoOf(r, v, junk) ==
  [st |-> r.st, ok |-> r.got, val |-> IF r.got THEN StrToInfo(r.data, junk) ELSE v]

RecvInfo(st, v, junk) == InfoOf(RecvPart(st), v, junk)

RECURSIVE RecvInfoElems(_, _, _, _, _, _)
\* recv_array over discovery_info: element i has been received as r.
InfoElemsNext(r, c, i, fit, all_ok, junk) ==
  RecvInfoElems(r.st, [c EXCEPT ![i] = r.val], i + 1, fit, all_ok /\ r.ok, junk)

\* The element loop of recv_array over discovery_info, elements i..fit.
RecvInfoElems(st, c, i, fit, all_ok, junk) ==
  IF i > fit \/ st.blocked THEN [st |-> st, ok |-> all_ok, c |-> c]
  ELSE InfoElemsNext(RecvInfo(st, c[i], junk), c, i, fit, all_ok, junk)

\* recv_array on std::vector<discovery_info> after the count n was
\* received: fit = min(count, max_elems), c.resize(fit), the element loop,
\* the drop loop.
InfoArrayFit(n, c, fit, junk) ==
  ArrayDrop(RecvInfoElems(n.st, Resize(c, IF n.st.blocked THEN 0 ELSE fit, DefaultInfo),
                          1, fit, n.ok, junk),
            fit, n.val)

InfoArrayCount(n, c, max_elems, junk) ==
  InfoArrayFit(n, c, Min(n.val, max_elems), junk)

\* zmq_ext::recv_array on std::vector<discovery_info>.
RecvInfoArray(st, c, max_elems, junk) ==
  InfoArrayCount(RecvCount(st, junk), c, max_elems, junk)

(***************************************************************************)
(* discovery_server: the registry _servers and the handling of a request.  *)
(***************************************************************************)
\* The request kinds, as the text of their part.
ReqRegister == <<"r", "e", "g", "i", "s", "t", "e", "r">>

ReqFind == <<"f", "i", "n", "d">>

ReqUnregister == <<"u", "n", "r", "e", "g", "i", "s", "t", "e", "r">>

\* A register that keeps one entry per address.
RegisterOnce(regs, di) ==
  [servers |-> IF \E i \in 1..Len(regs) : regs[i].address = di.address
               THEN regs ELSE Append(regs, di),
   ret |-> TRUE]

\* discovery_server::register_server(di): the registry after the call and
\* the value returned.
register_server(regs, di) == [servers |-> Append(regs, di), ret |-> TRUE]

RECURSIVE RemoveFirst(_, _)
\* regs without its first entry of address a.
RemoveFirst(regs, a) ==
  IF regs = <<>> THEN <<>>
  ELSE IF Head(regs).address = a THEN Tail(regs)
       ELSE <<Head(regs)>> \o RemoveFirst(Tail(regs), a)

\* An unregister that removes one entry.
UnregisterFirst(regs, di) == [servers |-> RemoveFirst(regs, di.address), ret |-> TRUE]

RECURSIVE RemoveAddress(_, _)
\* std::remove_if and erase: regs without the entries of address a.
RemoveAddress(regs, a) ==
  IF regs = <<>> THEN <<>>
  ELSE (IF Head(regs).address = a THEN <<>> ELSE <<Head(regs)>>)
         \o RemoveAddress(Tail(regs), a)

\* discovery_server::unregister_server(di).
unregister_server(regs, di) == [servers |-> RemoveAddress(regs, di.address), ret |-> TRUE]

\* A match that compares the address as well.
MatchesAddress(di, x) ==
  /\ di.name = x.name
  /\ di.address = x.address
  /\ di.protocol_type = x.protocol_type
  /\ di.protocol_version = x.protocol_version

\* The test of discover_servers on the registry entry x.
Matches(di, x) ==
  /\ di.name = x.name
  /\ di.protocol_type = x.protocol_type
  /\ di.protocol_version = x.protocol_version

RECURSIVE discover_servers(_, _)
\* discovery_server::discover_servers(di) on the registry regs.
discover_servers(regs, di) ==
  IF regs = <<>> THEN <<>>
  ELSE (IF Matches(di, Head(regs)) THEN <<Head(regs)>> ELSE <<>>)
         \o discover_servers(Tail(regs), di)

\* A version test that accepts every tag.
VersionAny(v) == TRUE

\* process_events: v == IMAGEBABBLE_DISCOVERY_PROTO_VERSION.
VersionMatches(v) == v = DiscoveryVersion

\* process_events: the reply to a find request of identity id, found being
\* the result of discover_servers.
FindReply(id, found) ==
  SendString(id, TRUE) \o SendBool(found # <<>>, TRUE)
    \o SendInfoArray(found, Len(found), FALSE)

\* process_events: the reply to a register or unregister request, r being
\* what the registry call yielded.
BoolReply(id, r) ==
  [servers |-> r.servers, wire |-> SendString(id, TRUE) \o SendBool(r.ret, FALSE)]

\* process_events: the branches on req. The registry after the request
\* and the parts sent.
Dispatch(id, req, di, regs) ==
  IF req = ReqRegister THEN BoolReply(id, register_server(regs, di))
  ELSE IF req = ReqFind
       THEN [servers |-> regs, wire |-> FindReply(id, discover_servers(regs, di))]
  ELSE IF req = ReqUnregister THEN BoolReply(id, unregister_server(regs, di))
  ELSE [servers |-> regs, wire |-> <<>>]

\* One pass of the loop of process_events once its parts are read: the
\* socket, the registry, the parts sent and what was read.
Handled(st, id, v, req, di, r) ==
  [st |-> st, servers |-> r.servers, wire |-> r.wire, kind |-> "handled",
   id |-> id, v |-> v, req |-> req, di |-> di]

\* The pass after the payload di was received.
HandlePayload(id, v, req, di, regs) ==
  Handled(di.st, id.val, v.val, req.val, di.val, Dispatch(id.val, req.val, di.val, regs))

\* The pass after the request kind req was received.
HandleRequest(id, v, req, regs, junk) ==
  HandlePayload(id, v, req, RecvInfo(req.st, DefaultInfo, junk), regs)

\* The pass after the version tag v was received: a request of another
\* version is left as it is.
HandleVersion(id, v, regs, junk) ==
  IF VersionMatches(v.val)
  THEN HandleRequest(id, v, RecvString(v.st, <<>>), regs, junk)
  ELSE [st |-> v.st, servers |-> regs, wire |-> <<>>, kind |-> "ignored",
        id |-> id.val, v |-> v.val, req |-> <<>>, di |-> DefaultInfo]

\* The pass after the identity id was received.
HandleIdentity(id, regs, junk) == HandleVersion(id, RecvString(id.st, <<>>), regs, junk)

\* One pass of the loop of process_events on the socket st.
HandleOne(st, regs, junk) == HandleIdentity(RecvString(st, <<>>), regs, junk)

\* discovery_client: the reply read by register_server and
\* unregister_server, ok being the bool received.
BoolResult(ok, results) == [st |-> ok.st, ret |-> ok.val, c |-> results]

\* discovery_client::find_servers: the reply, ok being the bool received
\* and a what recv_array made of results.
FindResult(ok, a) == [st |-> a.st, ret |-> ok.val, c |-> a.c]

\* discovery_client::find_servers after the bool ok was received.
FindArray(ok, results, junk) ==
  FindResult(ok, RecvInfoArray(ok.st, results, SizeMax, junk))

\* What a call of the discovery client reads once data is pending.
ReadReply(req, st, results, junkb, junk) ==
  IF req = ReqFind THEN FindArray(RecvBool(st, junkb), results, junk)
  ELSE BoolResult(RecvBool(st, junkb), results)


(***************************************************************************)
(* State.                                                                  *)
(***************************************************************************)
VARIABLES
  subq,     \* fast model: the inbound queue of the subscriber's socket
  cparts,   \* history: the number of parts of each frame queued in subq
  csent,    \* history: the [f, o] of the frame queued in subq (codec runs)
  clast,    \* history: what the last receive call was given and what it did
  conns,    \* reliable model: the identities of the connected clients
  inbox,    \* reliable model: the inbound queue of the server's ROUTER socket
  rx,       \* reliable model: the inbound queue of each client's DEALER socket
  srv,      \* reliable_image_server: where publish stands, and its locals
  cli,      \* reliable_image_client: where each client's receive stands
  pubLog,   \* history: the frame and the ready identities of each publish
            \* call that met the quorum
  recvLog,  \* history: the frames each client's receive calls returned
  subs,     \* fan-out model: the consumers whose SUB socket is subscribed
  fanq,     \* fan-out model: the inbound queue of each consumer's SUB socket
  fansent,  \* history: the frames queued in each fanq, oldest first
  joined,   \* history: the number of publish calls before each subscription
  npub,     \* history: the number of publish calls of the fast server
  flast,    \* history: the last publish or receive call of the fan-out model
  servers,  \* discovery_server: the registry _servers
  dinbox,   \* discovery model: the inbound queue of the server's ROUTER socket
  drx,      \* discovery model: the inbound queue of the client's DEALER socket
  dsrv,     \* discovery_server: where process_events stands, and what its
            \* last pass read and did
  dcl,      \* discovery_client: where its call stands, and what its last
            \* call returned
  dpend,    \* history: the requests sent and not yet read, oldest first
  nforeign, \* history: the number of requests sent with a foreign version tag
  calc      \* the last call of image_header::get_total_bytes: the header
            \* and the value returned

codecVars == <<subq, cparts, csent, clast>>

relVars == <<conns, inbox, rx, srv, cli, pubLog, recvLog>>

fanVars == <<subs, fanq, fansent, joined, npub, flast>>

discVars == <<servers, dinbox, drx, dsrv, dcl, dpend, nforeign>>

calcVars == <<calc>>

vars == <<subq, cparts, csent, clast, conns, inbox, rx, srv, cli, pubLog, recvLog,
          subs, fanq, fansent, joined, npub, flast,
          servers, dinbox, drx, dsrv, dcl, dpend, nforeign, calc>>

(***************************************************************************)
(* Inputs of the codec specifications.                                     *)
(***************************************************************************)
\* Image headers: a plain one, and one whose name holds a blank.
HeaderVals ==
  { image_header(640, 480, 3, 1, <<"a">>),
    image_header(0, 7, 12, -1, <<"a", " ", "b">>) }

\* Buffer contents: no bytes, three bytes.
BufVals == { <<>>, <<"x", "y", "z">> }

\* User data: empty, and text with a blank.
UserDataVals == { <<>>, <<"u", " ", "v">> }

\* All sequences over S of length at most n.
SeqsUpTo(S, n) == UNION { [1..k -> S] : k \in 0..n }

\* The frames a producer publishes: owned buffers, every count of headers
\* and of buffers up to the bounds, chosen independently.
CodecFrames ==
  { MkFrame(h, [i \in 1..Len(b) |-> OwnedData(b[i])], u) :
      h \in SeqsUpTo(HeaderVals, MaxHeaders),
      b \in SeqsUpTo(BufVals, MaxBuffers),
      u \in UserDataVals }

\* The frames published when several frames are queued on the connection.
StreamFrames ==
  { EmptyFrame,
    MkFrame(<<image_header(2, 2, 1, 1, <<>>)>>,
            <<OwnedData(<<"p">>), OwnedData(<<"x", "y", "z">>)>>, <<"w">>),
    MkFrame(<<image_header(640, 480, 3, 1, <<"a">>), image_header(1, 1, 1, 1, <<"b">>)>>,
            <<>>, <<>>) }

\* The frame objects a consumer passes to receive: a fresh frame, a frame
\* used before, and a frame with a borrowed three-byte buffer and a
\* borrowed two-byte buffer.
DstFrames ==
  { EmptyFrame,
    MkFrame(<<image_header(9, 9, 9, 9, <<"o">>)>>, <<OwnedData(<<"k">>)>>, <<"o", "l", "d">>),
    MkFrame(<<>>, <<BorrowedData(<<"m", "m", "m">>), BorrowedData(<<"m", "m">>)>>, <<>>) }

\* The values an uninitialised int or size_t may hold.
JunkVals == {0, 3}

\* The values a field of an image_header may hold: small ones, 2^16, and
\* the largest int.
FieldVals == {0, 1, 2, 3, 65536, IntMax}

\* What a signed overflow may leave in an int: the low 32 bits of the
\* product (0 for 2^16 * 2^16, 1 for IntMax * IntMax), anything else.
OverflowVals == {0, 1, -2, 65536}

\* No call of get_total_bytes yet.
NoCalc == [called |-> FALSE, i |-> DefaultHeader, out |-> 0]

\* No receive call yet.
NoLast ==
  [kind |-> "none", f |-> EmptyFrame, so |-> DefaultOptions, ro |-> DefaultOptions,
   d |-> EmptyFrame, out |-> EmptyFrame, ok |-> FALSE, used |-> 0, emitted |-> 0]

(***************************************************************************)
(* Inputs and initial values of the reliable execution model.              *)
(***************************************************************************)
\* The identities the ROUTER socket gives the connections of two clients.
Consumers == { <<"c", "1">>, <<"c", "2">> }

\* The sets of clients connected in a behaviour: one client, two clients.
Connections == { {<<"c", "1">>}, Consumers }

\* The frames the reliable server publishes: a plain one, and one whose
\* header name holds a blank.
RelFrames ==
  { MkFrame(<<image_header(2, 1, 1, 1, <<"a">>)>>, <<OwnedData(<<"x", "y">>)>>, <<"1">>),
    MkFrame(<<image_header(2, 1, 1, 1, <<"a", " ", "b">>)>>, <<>>, <<"2">>) }

\* The timeout arguments of publish: the default -1, another negative
\* value, zero, half a second.
PublishTimeouts == {-1, -2, 0, 500}

\* The min_serve arguments of publish.
MinServes == {0, 1, 2}

\* The timeout arguments of receive: the default -1, and zero.
ReceiveTimeouts == {-1, 0}

\* The values of clock() - _begin a publish call may observe.
TickVals == {0, 600, 1000}

\* The server outside publish. ret is the value the last call returned;
\* within a call ok is the value it will return, and copies, dup, left tell
\* what the call did: the messages it sent to each identity, whether it
\* read a signal of an identity already in clients, and the number of parts
\* left queued when its inner loop ended last.
IdleServer ==
  [pc |-> "idle", f |-> EmptyFrame, fo |-> DefaultOptions, timeout |-> -1,
   min_serve |-> 1, clients |-> {}, todo |-> {}, ticks |-> 0,
   continue_wait |-> TRUE, ok |-> FALSE, ret |-> "none", calls |-> 0,
   dup |-> FALSE, left |-> 0,
   copies |-> [c \in Consumers |-> <<>>]]

\* A client outside receive. sent holds the parts the last call sent.
IdleClient ==
  [pc |-> "idle", timeout |-> -1, sent |-> <<>>, ret |-> "none", calls |-> 0]

\* No call of the fan-out model yet. kind is "publish", "frame" (a receive
\* that decoded a frame) or "empty" (a receive that found nothing); ok is
\* the value returned; before is the consumer's queue at the call, f the
\* frame at its head, d the frame object passed and out the frame object
\* as the call left it.
NoFanCall ==
  [kind |-> "none", c |-> <<>>, ok |-> FALSE, timeout |-> 0, min_serve |-> 0,
   before |-> <<>>, f |-> EmptyFrame, d |-> EmptyFrame, out |-> EmptyFrame]

\* No fast server with several consumers: the other specifications.
NoFan ==
  /\ subs = {}
  /\ fanq = [c \in Consumers |-> <<>>]
  /\ fansent = [c \in Consumers |-> <<>>]
  /\ joined = [c \in Consumers |-> 0]
  /\ npub = 0
  /\ flast = NoFanCall

\* The identity the ROUTER socket gives the connection of the discovery
\* client, and that of a peer speaking another version.
DiscClient == <<"d", "1">>

ForeignPeer == <<"d", "2">>

\* The version tag of the peer.
ForeignVersion == <<"2">>

\* The entries the client registers, unregisters and asks for: two that
\* differ in the address only, one that differs from the first in the
\* kind only, and one of another name and version at the first address.
DiscEntries ==
  { discovery_info(<<"a">>, <<"x">>, PROTO_IMAGE_FAST, ImageVersion),
    discovery_info(<<"a">>, <<"y">>, PROTO_IMAGE_FAST, ImageVersion),
    discovery_info(<<"a">>, <<"x">>, PROTO_IMAGE_RELIABLE, ImageVersion),
    discovery_info(<<"b">>, <<"x">>, PROTO_IMAGE_FAST, <<"2">>) }

\* The request kinds of the client's three calls.
Requests == { ReqRegister, ReqFind, ReqUnregister }

\* The timeout arguments of the client's calls: the default -1, and zero.
DiscTimeouts == {-1, 0}

\* The values the uninitialised bool ok of a client call may hold.
JunkBools == {TRUE, FALSE}

\* The server outside process_events, before any request. kind tells what
\* the last pass of the loop did ("handled", "ignored"), id, v, req, di
\* what it read, before the registry it found and wire the parts it sent;
\* sent is the oldest request not read when the pass began; half tells
\* that the pass read the first two parts of that request and left the
\* others; behind tells that the pass before it, in the same call, ended
\* the reading of a request that was ignored; atcall is the number of
\* requests unread when process_events was called and left the number of
\* those not read yet, where the call keeps them; nopoll tells that the last call found nothing
\* pending and returned without entering the loop.
NoRequest == [id |-> <<>>, v |-> <<>>, req |-> <<>>, di |-> DefaultInfo]

IdleDirectory ==
  [pc |-> "idle", kind |-> "none", id |-> <<>>, v |-> <<>>, req |-> <<>>,
   di |-> DefaultInfo, before |-> <<>>, wire |-> <<>>,
   sent |-> NoRequest, half |-> FALSE, behind |-> FALSE,
   atcall |-> 0, left |-> 0, nopoll |-> FALSE]

\* The client outside its calls, before any call. results is the vector
\* the caller passes to find_servers; ret is the value the last call
\* returned and replied whether it read a reply; intime tells that every
\* call so far read its reply after the server had handled every request
\* sent; e is the entry a scenario is run with.
IdleDiscClient ==
  [pc |-> "idle", req |-> <<>>, di |-> DefaultInfo, timeout |-> -1,
   results |-> <<>>, ret |-> FALSE, replied |-> FALSE, calls |-> 0,
   intime |-> TRUE, e |-> DefaultInfo]

\* The directory and its client after startup: an empty registry.
NoDisc ==
  /\ servers = <<>>
  /\ dinbox = <<>>
  /\ drx = <<>>
  /\ dsrv = IdleDirectory
  /\ dcl = IdleDiscClient
  /\ dpend = <<>>
  /\ nforeign = 0

\* No reliable server and no client: the codec specifications.
NoReliable ==
  /\ conns = {}
  /\ inbox = <<>>
  /\ rx = [c \in Consumers |-> <<>>]
  /\ srv = IdleServer
  /\ cli = [c \in Consumers |-> IdleClient]
  /\ pubLog = <<>>
  /\ recvLog = [c \in Consumers |-> <<>>]

(***************************************************************************)
(* Fast execution model: fast_image_server::publish and                    *)
(* fast_image_client::receive over one connected subscriber.               *)
(***************************************************************************)
InitCodec ==
  /\ subq = <<>>
  /\ cparts = <<>>
  /\ csent = <<>>
  /\ clast = NoLast
  /\ NoReliable
  /\ NoFan
  /\ NoDisc
  /\ calc = NoCalc

\* fast_image_server::publish(f, timeout, min_serve, fo): sends the frame;
\* the subscriber's socket queues its parts.
Publish(f, o) ==
  LET parts == SendFrame(o, f)
  IN  /\ subq' = subq \o parts
      /\ cparts' = Append(cparts, Len(parts))

\* fast_image_client::receive(f, timeout, fo) with data pending: decodes one
\* frame into the frame object d. The history keeps base, the counts of
\* parts, the result and, if full, the frame as the call left it.
Receive(d, o, junk, base, full) ==
  LET r == RecvFrame(Socket(subq), o, d, junk)
  IN  /\ ~r.st.blocked
      /\ subq' = r.st.q
      /\ cparts' = Tail(cparts)
      /\ clast' = [base EXCEPT !.kind = "frame", !.ok = r.ok,
                               !.out = IF full THEN r.f ELSE @,
                               !.used = Len(subq) - Len(r.st.q),
                               !.emitted = Head(cparts)]

\* A publish into the empty queue, before any receive.
FastPublish ==
  /\ csent = <<>>
  /\ clast.kind = "none"
  /\ \E f \in CodecFrames, o \in AllOptions :
       /\ Publish(f, o)
       /\ csent' = <<[f |-> f, o |-> o]>>
  /\ UNCHANGED clast
  /\ UNCHANGED <<relVars, fanVars, discVars, calcVars>>

\* The receive of the queued frame.
FastReceive ==
  /\ IsDataPending(subq)
  /\ \E d \in DstFrames, o \in AllOptions, junk \in JunkVals :
       Receive(d, o, junk,
               [NoLast EXCEPT !.f = Head(csent).f, !.so = Head(csent).o,
                              !.ro = o, !.d = d],
               TRUE)
  /\ csent' = Tail(csent)
  /\ UNCHANGED <<relVars, fanVars, discVars, calcVars>>

\* fast_image_client::receive(f, timeout, fo), timeout >= 0, with nothing
\* pending within the timeout: returns false and leaves d as it was.
FastReceiveNone ==
  /\ ~IsDataPending(subq)
  /\ \E d \in DstFrames :
       clast' = [NoLast EXCEPT !.kind = "empty", !.d = d, !.out = d]
  /\ UNCHANGED <<subq, cparts, csent>>
  /\ UNCHANGED <<relVars, fanVars, discVars, calcVars>>

NextCodec == FastPublish \/ FastReceive \/ FastReceiveNone

\* One frame is published, then received: every frame of CodecFrames under
\* every pair of options into every frame object of DstFrames.
SpecCodec == InitCodec /\ [][NextCodec]_vars

\* A publish while fewer than MaxQueued frames are queued.
StreamPublish ==
  /\ Len(cparts) < MaxQueued
  /\ \E f \in StreamFrames, o \in AllOptions : Publish(f, o)
  /\ UNCHANGED <<csent, clast>>
  /\ UNCHANGED <<relVars, fanVars, discVars, calcVars>>

\* The receive of the oldest queued frame; the history keeps the counts.
StreamReceive ==
  /\ IsDataPending(subq)
  /\ \E d \in DstFrames, o \in AllOptions, junk \in JunkVals :
       Receive(d, o, junk, NoLast, FALSE)
  /\ UNCHANGED csent
  /\ UNCHANGED <<relVars, fanVars, discVars, calcVars>>

NextStream == StreamPublish \/ StreamReceive \/ FastReceiveNone

\* Frames are published and received in any order on one connection.
SpecStream == InitCodec /\ [][NextStream]_vars

\* The first k parts of an encoding as one message: the last of them
\* carries no more flag.
EndAt(parts, k) == [i \in 1..k |-> IF i = k THEN Part(parts[i].data, FALSE) ELSE parts[i]]

\* The messages a peer sends that end before the encoding of a frame does:
\* every proper prefix of the encoding of a frame of StreamFrames.
ShortMessages ==
  UNION { { EndAt(SendFrame(DefaultOptions, f), k) :
              k \in 1..(Len(SendFrame(DefaultOptions, f)) - 1) } : f \in StreamFrames }

\* A short message arrives on the idle connection.
ShortPublish ==
  /\ subq = <<>>
  /\ clast.kind = "none"
  /\ \E parts \in ShortMessages :
       /\ subq' = parts
       /\ cparts' = <<Len(parts)>>
       /\ csent' = <<[parts |-> parts]>>
  /\ UNCHANGED clast
  /\ UNCHANGED <<relVars, fanVars, discVars, calcVars>>

\* A publish of a further frame behind the short message.
LaterPublish ==
  /\ csent # <<>>
  /\ clast.kind = "none"
  /\ Len(cparts) < MaxQueued
  /\ \E f \in StreamFrames : Publish(f, DefaultOptions)
  /\ UNCHANGED <<csent, clast>>
  /\ UNCHANGED <<relVars, fanVars, discVars, calcVars>>

\* fast_image_client::receive(f, timeout, fo) with the short message
\* pending. Every part is read with a blocking recv (lines 523, 537, 544,
\* 561, 564): the decode goes on into the parts queued behind the message
\* and, when the queue is empty, stays in recv. kind "hung" is a call that
\* is in recv with nothing queued; kind "short" is a call that returned.
ShortReceive ==
  /\ IsDataPending(subq)
  /\ csent # <<>>
  /\ clast.kind = "none"
  /\ \E d \in DstFrames, junk \in JunkVals :
       LET r == RecvFrame(Socket(subq), DefaultOptions, d, junk)
       IN  /\ subq' = r.st.q
           /\ clast' = [NoLast EXCEPT !.kind = IF r.st.blocked THEN "hung" ELSE "short",
                                      !.ok = r.ok,
                                      !.used = Len(subq) - Len(r.st.q),
                                      !.emitted = Head(cparts)]
  /\ UNCHANGED <<cparts, csent>>
  /\ UNCHANGED <<relVars, fanVars, discVars, calcVars>>

NextShort == ShortPublish \/ LaterPublish \/ ShortReceive

\* A message that ends early is queued, frames are queued behind it, and
\* one receive decodes from the head of the queue.
SpecShort == InitCodec /\ [][NextShort]_vars

(***************************************************************************)
(* Fan-out model: fast_image_server::publish on a PUB socket and a         *)
(* fast_image_client on a SUB socket per consumer.                         *)
(***************************************************************************)
\* A publish that reports whether min_serve consumers were subscribed.
QuorumResult(all_ok, nsubs, timeout, min_serve) == all_ok /\ nsubs >= min_serve

\* What fast_image_server::publish returns, all_ok being the result of
\* zmq_ext::send: timeout and min_serve are not used, and the number of
\* subscribers is not known to it.
FastPublishResult(all_ok, nsubs, timeout, min_serve) == all_ok

\* The frames the n-th publish call may send: their user data is n.
FanFrames(n) ==
  { MkFrame(<<>>, <<OwnedData(<<"w", "x", "y", "z">>)>>, StrOfNat(n)),
    MkFrame(<<image_header(2, 1, 1, 1, <<"a">>)>>, <<OwnedData(<<"p">>)>>, StrOfNat(n)) }

\* What the PUB socket does with the parts of a message: they are queued
\* to the SUB sockets subscribed at the time, and to no other.
PubOut(q, parts) == [c \in Consumers |-> IF c \in subs THEN q[c] \o parts ELSE q[c]]

\* fast_image_client::startup of consumer c: a new SUB socket, subscribed
\* to everything, with nothing queued.
Subscribe(c) ==
  /\ c \notin subs
  /\ subs' = subs \cup {c}
  /\ joined' = [joined EXCEPT ![c] = npub]
  /\ UNCHANGED <<fanq, fansent, npub, flast>>
  /\ UNCHANGED <<codecVars, relVars, discVars, calcVars>>

\* fast_image_server::publish(f, timeout, min_serve, fo).
FanPublish ==
  /\ npub < MaxPublish
  /\ \E f \in FanFrames(npub + 1), timeout \in PublishTimeouts, min_serve \in MinServes :
       /\ fanq' = PubOut(fanq, SendFrame(DefaultOptions, f))
       /\ fansent' = [c \in Consumers |->
                        IF c \in subs THEN Append(fansent[c], f) ELSE fansent[c]]
       /\ flast' = [NoFanCall EXCEPT
                      !.kind = "publish",
                      !.ok = FastPublishResult(TRUE, Cardinality(subs), timeout, min_serve),
                      !.timeout = timeout, !.min_serve = min_serve]
  /\ npub' = npub + 1
  /\ UNCHANGED <<subs, joined>>
  /\ UNCHANGED <<codecVars, relVars, discVars, calcVars>>

\* fast_image_client::receive(f, timeout, fo) of consumer c with data
\* pending: returns what zmq_ext::recv(s, fo, f) returns.
FanReceive(c) ==
  /\ c \in subs
  /\ IsDataPending(fanq[c])
  /\ \E d \in DstFrames, timeout \in ReceiveTimeouts, junk \in JunkVals :
       LET r == RecvFrame(Socket(fanq[c]), DefaultOptions, d, junk)
       IN  /\ ~r.st.blocked
           /\ fanq' = [fanq EXCEPT ![c] = r.st.q]
           /\ flast' = [NoFanCall EXCEPT
                          !.kind = "frame", !.c = c, !.ok = r.ok, !.timeout = timeout,
                          !.before = fanq[c], !.f = Head(fansent[c]), !.d = d,
                          !.out = r.f]
  /\ fansent' = [fansent EXCEPT ![c] = Tail(@)]
  /\ UNCHANGED <<subs, joined, npub>>
  /\ UNCHANGED <<codecVars, relVars, discVars, calcVars>>

\* fast_image_client::receive(f, timeout, fo) of consumer c, timeout >= 0,
\* with nothing pending within the timeout: returns false. With a negative
\* timeout the poll waits until a part is queued.
FanReceiveNone(c) ==
  /\ c \in subs
  /\ ~IsDataPending(fanq[c])
  /\ \E d \in DstFrames, timeout \in ReceiveTimeouts :
       /\ timeout >= 0
       /\ flast' = [NoFanCall EXCEPT
                      !.kind = "empty", !.c = c, !.ok = FALSE, !.timeout = timeout,
                      !.before = fanq[c], !.d = d, !.out = d]
  /\ UNCHANGED <<subs, fanq, fansent, joined, npub>>
  /\ UNCHANGED <<codecVars, relVars, discVars, calcVars>>

NextFan ==
  \/ FanPublish
  \/ \E c \in Consumers : Subscribe(c)
  \/ \E c \in Consumers : FanReceive(c)
  \/ \E c \in Consumers : FanReceiveNone(c)

\* The fast server publishes while consumers subscribe and receive.
SpecFan == InitCodec /\ [][NextFan]_vars

(***************************************************************************)
(* Reliable execution model: reliable_image_server::publish on a ROUTER    *)
(* socket, reliable_image_client::receive on a DEALER socket per client.   *)
(* Each call is a sequence of steps, so that calls of the server and of    *)
(* the clients interleave.                                                 *)
(***************************************************************************)
\* A receive that sends no readiness signal.
NoSignal == <<>>

\* The message a client sends first in receive: zmq_ext::send(empty()).
ReadySignal == SendEmpty(FALSE)

\* What the ROUTER socket queues for the parts a client's DEALER socket
\* sent: each message with the identity of the connection in front.
RouterIn(c, parts) == IF parts = <<>> THEN <<>> ELSE SendString(c, TRUE) \o parts

\* What the ROUTER socket does with a message sent on it: the first part
\* names the connection the other parts are queued to.
RouterOut(r, wire) ==
  IF Head(wire).data \in conns
  THEN [r EXCEPT ![Head(wire).data] = @ \o Tail(wire)]
  ELSE r

\* timer::elapsed_msecs() when clock() - _begin is ticks.
elapsed_msecs(ticks) == (ticks \div ClocksPerSec) * 1000

\* continue_wait as publish computes it after a round of reads.
ContinueWait(timeout, ticks) == timeout = -1 \/ elapsed_msecs(ticks) < timeout

\* A quorum test that asks for one client more.
QuorumStrict(nclients, min_serve) == nclients > min_serve

\* The test of publish after the loop: whether enough clients are ready.
Quorum(nclients, min_serve) == nclients >= min_serve

\* A publish that sends to the ready identities without a quorum, too.
SendTargetsAll(clients, quorum) == clients

\* The identities publish sends the frame to: all that signalled when the
\* quorum is met, none otherwise.
SendTargets(clients, quorum) == IF quorum THEN clients ELSE {}

\* is_data_pending with timeout 0 at the end of the inner loop of publish.
PendingAfterRead(q) == IsDataPending(q)

InitReliable ==
  /\ conns \in Connections
  /\ inbox = <<>>
  /\ rx = [c \in Consumers |-> <<>>]
  /\ srv = IdleServer
  /\ cli = [c \in Consumers |-> IdleClient]
  /\ pubLog = <<>>
  /\ recvLog = [c \in Consumers |-> <<>>]

Init ==
  /\ subq = <<>>
  /\ cparts = <<>>
  /\ csent = <<>>
  /\ clast = NoLast
  /\ InitReliable
  /\ NoFan
  /\ NoDisc
  /\ calc = NoCalc

\* publish(f, timeout, min_serve, fo) is called: clients is empty, the
\* timer starts.
PublishCall ==
  /\ srv.pc = "idle"
  /\ srv.calls < MaxPublish
  /\ \E f \in RelFrames, timeout \in PublishTimeouts, min_serve \in MinServes :
       srv' = [IdleServer EXCEPT !.pc = "poll", !.f = f, !.timeout = timeout,
                                 !.min_serve = min_serve, !.calls = srv.calls + 1]
  /\ UNCHANGED <<conns, inbox, rx, cli, pubLog, recvLog>>
  /\ UNCHANGED <<codecVars, fanVars, discVars, calcVars>>

\* is_data_pending with wait_time at the head of the loop: zmq::poll
\* returns when a part is queued or, with a timeout that is not negative,
\* when the timeout has passed; with a negative timeout it waits.
PublishPoll ==
  /\ srv.pc = "poll"
  /\ IsDataPending(inbox) \/ srv.timeout >= 0
  /\ srv' = [srv EXCEPT !.pc = IF IsDataPending(inbox) THEN "read" ELSE "check",
                        !.left = Len(inbox)]
  /\ UNCHANGED <<conns, inbox, rx, cli, pubLog, recvLog>>
  /\ UNCHANGED <<codecVars, fanVars, discVars, calcVars>>

\* publish's inner loop after the identity part a and the empty part d of
\* one readiness signal were read.
PublishReadDone(a, d) ==
  /\ ~d.st.blocked
  /\ inbox' = d.st.q
  /\ srv' = [srv EXCEPT !.clients = @ \cup {a.val},
                        !.dup = @ \/ a.val \in srv.clients,
                        !.left = Len(d.st.q),
                        !.pc = IF PendingAfterRead(d.st.q) THEN "read" ELSE "check"]

\* publish's inner loop after the identity part a was read: the drop.
PublishReadDrop(a) == PublishReadDone(a, RecvDrop(a.st))

\* One round of the inner loop of publish: a readiness signal is read, its
\* identity inserted into clients, and the socket polled again.
PublishRead ==
  /\ srv.pc = "read"
  /\ PublishReadDrop(RecvString(Socket(inbox), <<>>))
  /\ UNCHANGED <<conns, rx, cli, pubLog, recvLog>>
  /\ UNCHANGED <<codecVars, fanVars, discVars, calcVars>>

\* After the inner loop cw is continue_wait: the outer loop goes round
\* again, or ends and the quorum test q decides whom to send to.
PublishLoopEnd(ticks, cw, q) ==
  IF Cardinality(srv.clients) < srv.min_serve /\ cw
  THEN /\ srv' = [srv EXCEPT !.pc = "poll", !.ticks = ticks, !.continue_wait = cw]
       /\ UNCHANGED pubLog
  ELSE /\ srv' = [srv EXCEPT !.pc = "send", !.continue_wait = cw,
                             !.ok = q, !.todo = SendTargets(srv.clients, q)]
       /\ pubLog' = IF q THEN Append(pubLog, [f |-> srv.f, to |-> srv.clients])
                  ELSE pubLog

\* The values the timer may show when publish reads it: it has not gone
\* back since it was read last. With timeout -1 it is not read.
TicksRead ==
  IF srv.timeout = -1 THEN {srv.ticks}
  ELSE { ticks \in TickVals : ticks >= srv.ticks }

\* The end of a round of the outer loop.
PublishCheck ==
  /\ srv.pc = "check"
  /\ \E ticks \in TicksRead :
       /\ PublishLoopEnd(ticks, ContinueWait(srv.timeout, ticks),
                         Quorum(Cardinality(srv.clients), srv.min_serve))
  /\ UNCHANGED <<conns, inbox, rx, cli, recvLog>>
  /\ UNCHANGED <<codecVars, fanVars, discVars, calcVars>>

\* One round of the send loop of publish, for the identity c of clients:
\* the identity part, then the frame, which is the caller's frame as the
\* sends before left it. The hash_set gives the identities in an order of
\* its own.
PublishSendTo(c, wire) ==
  /\ rx' = RouterOut(rx, wire)
  /\ srv' = [srv EXCEPT !.todo = @ \ {c}, !.copies[c] = Append(@, Tail(wire)),
                        !.f = FrameAfterSend(@)]

PublishSend ==
  /\ srv.pc = "send"
  /\ \E c \in srv.todo : PublishSendTo(c, SendString(c, TRUE) \o SendFrame(srv.fo, srv.f))
  /\ UNCHANGED <<conns, inbox, cli, pubLog, recvLog>>
  /\ UNCHANGED <<codecVars, fanVars, discVars, calcVars>>

\* publish returns: true after the send loop, false without sending. Its
\* locals are gone.
PublishReturn ==
  /\ srv.pc = "send"
  /\ srv.todo = {}
  /\ srv' = [IdleServer EXCEPT !.calls = srv.calls,
                               !.ret = IF srv.ok THEN "true" ELSE "false"]
  /\ UNCHANGED <<conns, inbox, rx, cli, pubLog, recvLog>>
  /\ UNCHANGED <<codecVars, fanVars, discVars, calcVars>>

\* A connected client calls receive(f, timeout, fo) with an empty frame f.
ReceiveCall ==
  /\ \E c \in conns, timeout \in ReceiveTimeouts :
       /\ cli[c].pc = "idle"
       /\ cli[c].calls < MaxReceive
       /\ cli' = [cli EXCEPT ![c] = [pc |-> "ready", timeout |-> timeout, sent |-> <<>>,
                                     ret |-> "none", calls |-> cli[c].calls + 1]]
  /\ UNCHANGED <<conns, inbox, rx, srv, pubLog, recvLog>>
  /\ UNCHANGED <<codecVars, fanVars, discVars, calcVars>>

\* receive sends the readiness signal; the server's socket queues it.
ReceiveReady ==
  /\ \E c \in conns :
       /\ cli[c].pc = "ready"
       /\ inbox' = inbox \o RouterIn(c, ReadySignal)
       /\ cli' = [cli EXCEPT ![c].pc = "poll", ![c].sent = @ \o ReadySignal]
  /\ UNCHANGED <<conns, rx, srv, pubLog, recvLog>>
  /\ UNCHANGED <<codecVars, fanVars, discVars, calcVars>>

\* receive after is_data_pending found data: r is what zmq_ext::recv of
\* the frame did.
ReceiveFrame(c, r) ==
  /\ ~r.st.blocked
  /\ rx' = [rx EXCEPT ![c] = r.st.q]
  /\ cli' = [cli EXCEPT ![c].pc = "idle", ![c].timeout = -1,
                        ![c].ret = IF r.ok THEN "true" ELSE "false"]
  /\ recvLog' = IF r.ok THEN [recvLog EXCEPT ![c] = Append(@, r.f)] ELSE recvLog

\* receive polls with its timeout: with data queued it decodes a frame;
\* with none and a timeout that is not negative it returns false; with
\* none and a negative timeout it waits.
ReceivePoll ==
  /\ \E c \in conns :
       /\ cli[c].pc = "poll"
       /\ IF IsDataPending(rx[c])
          THEN ReceiveFrame(c, RecvFrame(Socket(rx[c]), DefaultOptions, EmptyFrame, 0))
          ELSE /\ cli[c].timeout >= 0
               /\ cli' = [cli EXCEPT ![c].pc = "idle", ![c].timeout = -1,
                                     ![c].ret = "false"]
               /\ UNCHANGED <<rx, recvLog>>
  /\ UNCHANGED <<conns, inbox, srv, pubLog>>
  /\ UNCHANGED <<codecVars, fanVars, discVars, calcVars>>

Next ==
  \/ PublishCall
  \/ PublishPoll
  \/ PublishRead
  \/ PublishCheck
  \/ PublishSend
  \/ PublishReturn
  \/ ReceiveCall
  \/ ReceiveReady
  \/ ReceivePoll

\* One reliable server and one or two connected clients.
Spec == Init /\ [][Next]_vars

\* A timer read that ends the wait or shows a later time than the one
\* before.
ClockAdvances == PublishCheck /\ (srv'.pc = "send" \/ srv'.ticks > srv.ticks)

\* The same, the server's thread going on whenever it can and its clock
\* advancing.
SpecTimed ==
  /\ Spec
  /\ WF_vars(PublishPoll) /\ WF_vars(PublishRead) /\ WF_vars(PublishCheck)
  /\ WF_vars(PublishSend) /\ WF_vars(PublishReturn)
  /\ SF_vars(ClockAdvances)

(***************************************************************************)
(* Discovery model: discovery_server::process_events on a ROUTER socket,   *)
(* the calls of one discovery_client on a DEALER socket, and a peer that   *)
(* sends requests with another version tag.                                *)
(***************************************************************************)
\* The parts of a request as the client sends them: the version tag, the
\* request kind, the entry.
RequestParts(v, req, di) ==
  SendString(v, TRUE) \o SendString(req, TRUE) \o SendInfo(di, FALSE)

\* What the ROUTER socket of the directory does with a message sent on
\* it: the parts after the identity are queued to the client of that
\* identity.
DiscRouterOut(q, wire) ==
  IF wire # <<>> /\ Head(wire).data = DiscClient THEN q \o Tail(wire) ELSE q

\* discovery_client::register_server, unregister_server or find_servers
\* (req) is called with the entry di: the request is sent.
SendRequest(req, di) ==
  /\ dinbox' = dinbox \o RouterIn(DiscClient, RequestParts(DiscoveryVersion, req, di))
  /\ dpend' = Append(dpend, [id |-> DiscClient, v |-> DiscoveryVersion,
                             req |-> req, di |-> di])

\* The client inside a call.
Calling(req, di, timeout) ==
  [dcl EXCEPT !.pc = "wait", !.req = req, !.di = di, !.timeout = timeout,
              !.calls = @ + 1]

\* A call of the client with the default timeout, -1.
ClientCall ==
  /\ dcl.pc = "idle"
  /\ dcl.calls < MaxCalls
  /\ \E req \in Requests, di \in DiscEntries :
       /\ SendRequest(req, di)
       /\ dcl' = Calling(req, di, -1)
  /\ UNCHANGED <<servers, drx, dsrv, nforeign>>
  /\ UNCHANGED <<codecVars, relVars, fanVars, calcVars>>

\* The call finds data pending and reads its reply: a bool, and for
\* find_servers an array into results.
ClientReply ==
  /\ dcl.pc = "wait"
  /\ IsDataPending(drx)
  /\ \E junkb \in JunkBools, junk \in JunkVals :
       LET r == ReadReply(dcl.req, Socket(drx), dcl.results, junkb, junk)
       IN  /\ ~r.st.blocked
           /\ drx' = r.st.q
           /\ dcl' = [dcl EXCEPT !.pc = "idle", !.timeout = -1, !.ret = r.ret,
                                 !.results = r.c, !.replied = TRUE,
                                 !.intime = @ /\ dpend = <<>>]
  /\ UNCHANGED <<servers, dinbox, dsrv, dpend, nforeign>>
  /\ UNCHANGED <<codecVars, relVars, fanVars, calcVars>>

\* The call finds nothing pending within its timeout and returns false.
ClientTimeout ==
  /\ dcl.pc = "wait"
  /\ ~IsDataPending(drx)
  /\ dcl.timeout >= 0
  /\ dcl' = [dcl EXCEPT !.pc = "idle", !.timeout = -1, !.ret = FALSE,
                        !.replied = FALSE, !.intime = FALSE]
  /\ UNCHANGED <<servers, dinbox, drx, dsrv, dpend, nforeign>>
  /\ UNCHANGED <<codecVars, relVars, fanVars, calcVars>>

\* A peer sends a request with another version tag.
ForeignRequest ==
  /\ nforeign < MaxForeign
  /\ \E req \in Requests, di \in DiscEntries :
       /\ dinbox' = dinbox \o RouterIn(ForeignPeer, RequestParts(ForeignVersion, req, di))
       /\ dpend' = Append(dpend, [id |-> ForeignPeer, v |-> ForeignVersion,
                                  req |-> req, di |-> di])
  /\ nforeign' = nforeign + 1
  /\ UNCHANGED <<servers, drx, dsrv, dcl>>
  /\ UNCHANGED <<codecVars, relVars, fanVars, calcVars>>

\* process_events(timeout) is called with a request pending: can_read is
\* true and the loop is entered.
ProcessCall ==
  /\ dsrv.pc = "idle"
  /\ IsDataPending(dinbox)
  /\ dsrv' = [dsrv EXCEPT !.pc = "loop", !.atcall = 0, !.left = 0,
                          !.nopoll = FALSE]
  /\ UNCHANGED <<servers, dinbox, drx, dcl, dpend, nforeign>>
  /\ UNCHANGED <<codecVars, relVars, fanVars, calcVars>>

\* The same call, with the number of requests unread at the call kept
\* as history.
ProcessCallCounted ==
  /\ dsrv.pc = "idle"
  /\ IsDataPending(dinbox)
  /\ dsrv' = [dsrv EXCEPT !.pc = "loop", !.atcall = Len(dpend),
                          !.left = Len(dpend), !.nopoll = FALSE]
  /\ UNCHANGED <<servers, dinbox, drx, dcl, dpend, nforeign>>
  /\ UNCHANGED <<codecVars, relVars, fanVars, calcVars>>

\* process_events(timeout) is called with nothing pending and a timeout
\* that ends: can_read is false after the one poll, the loop is skipped.
ProcessIdle ==
  /\ dsrv.pc = "idle"
  /\ ~IsDataPending(dinbox)
  /\ \E timeout \in DiscTimeouts :
       /\ timeout >= 0
       /\ dsrv' = [IdleDirectory EXCEPT !.before = servers, !.nopoll = TRUE]
  /\ UNCHANGED <<servers, dinbox, drx, dcl, dpend, nforeign>>
  /\ UNCHANGED <<codecVars, relVars, fanVars, calcVars>>

\* The loop of process_events left after its first pass.
CanReadOnce(q) == FALSE

\* process_events: can_read at the end of a pass, a poll that does not wait.
CanRead(q) == IsDataPending(q)

\* The requests sent and not read after a pass of the loop that did kind:
\* the pass that reads the first two parts of an ignored request leaves it
\* half read.
Unread(kind) ==
  IF dpend = <<>> \/ (kind = "ignored" /\ ~dsrv.half) THEN dpend ELSE Tail(dpend)

\* One pass of the loop of process_events; the loop ends when
\* is_data_pending(s, 0) finds nothing.
ProcessPass ==
  /\ dsrv.pc = "loop"
  /\ \E junk \in JunkVals :
       LET h == HandleOne(Socket(dinbox), servers, junk)
       IN  /\ ~h.st.blocked
           /\ dinbox' = h.st.q
           /\ servers' = h.servers
           /\ drx' = DiscRouterOut(drx, h.wire)
           /\ dsrv' = [pc |-> IF CanRead(h.st.q) THEN "loop" ELSE "idle",
                       kind |-> h.kind, id |-> h.id, v |-> h.v, req |-> h.req,
                       di |-> h.di, before |-> servers, wire |-> h.wire,
                       sent |-> IF dpend = <<>> THEN NoRequest ELSE Head(dpend),
                       half |-> h.kind = "ignored" /\ ~dsrv.half,
                       behind |-> dsrv.kind = "ignored" /\ ~dsrv.half,
                       atcall |-> dsrv.atcall,
                       left |-> IF Unread(h.kind) = dpend \/ dsrv.left = 0
                                THEN dsrv.left ELSE dsrv.left - 1,
                       nopoll |-> FALSE]
           /\ dpend' = Unread(h.kind)
  /\ UNCHANGED <<dcl, nforeign>>
  /\ UNCHANGED <<codecVars, relVars, fanVars, calcVars>>

NextDisc ==
  ClientCall \/ ClientReply \/ ForeignRequest \/ ProcessCall \/ ProcessPass

\* The directory serves a client that calls with the default timeout and
\* a peer of another version.
SpecDisc == InitCodec /\ [][NextDisc]_vars

\* An entry of the other image protocol.
OtherKind(e) ==
  [e EXCEPT !.protocol_type =
     IF @ = PROTO_IMAGE_FAST THEN PROTO_IMAGE_RELIABLE ELSE PROTO_IMAGE_FAST]

\* The calls of a client that registers the entry e, looks it up, looks up
\* the other kind, unregisters e and looks it up again.
Scenario(e) ==
  << [req |-> ReqRegister, di |-> e],
     [req |-> ReqFind, di |-> e],
     [req |-> ReqFind, di |-> OtherKind(e)],
     [req |-> ReqUnregister, di |-> e],
     [req |-> ReqFind, di |-> e] >>

\* The entries the scenario is run with.
ScenarioEntries ==
  { discovery_info(<<"a">>, <<"x">>, PROTO_IMAGE_FAST, ImageVersion),
    discovery_info(<<"b">>, <<"y">>, PROTO_IMAGE_RELIABLE, ImageVersion) }

\* The next call of the scenario, with any timeout.
ScenarioCall ==
  /\ dcl.pc = "idle"
  /\ dcl.calls < Len(Scenario(dcl.e))
  /\ \E e \in ScenarioEntries, timeout \in DiscTimeouts :
       /\ dcl.calls > 0 => e = dcl.e
       /\ SendRequest(Scenario(e)[dcl.calls + 1].req, Scenario(e)[dcl.calls + 1].di)
       /\ dcl' = [Calling(Scenario(e)[dcl.calls + 1].req,
                          Scenario(e)[dcl.calls + 1].di, timeout) EXCEPT !.e = e]
  /\ UNCHANGED <<servers, drx, dsrv, nforeign>>
  /\ UNCHANGED <<codecVars, relVars, fanVars, calcVars>>

NextEnd ==
  ScenarioCall \/ ClientReply \/ ClientTimeout \/ ProcessCall \/ ProcessPass

\* One client runs the scenario against the directory.
SpecEnd == InitCodec /\ [][NextEnd]_vars

\* The entries of the client whose calls may time out: two that differ in
\* the address only.
PollEntries ==
  { discovery_info(<<"a">>, <<"x">>, PROTO_IMAGE_FAST, ImageVersion),
    discovery_info(<<"a">>, <<"y">>, PROTO_IMAGE_FAST, ImageVersion) }

\* A call of the client with any timeout.
TimedCall ==
  /\ dcl.pc = "idle"
  /\ dcl.calls < MaxTimed
  /\ \E req \in Requests, di \in PollEntries, timeout \in DiscTimeouts :
       /\ SendRequest(req, di)
       /\ dcl' = Calling(req, di, timeout)
  /\ UNCHANGED <<servers, drx, dsrv, nforeign>>
  /\ UNCHANGED <<codecVars, relVars, fanVars, calcVars>>

NextPoll ==
  \/ TimedCall \/ ClientReply \/ ClientTimeout \/ ForeignRequest
  \/ ProcessCallCounted \/ ProcessIdle \/ ProcessPass

\* The directory is polled while a client whose calls may time out and a
\* peer of another version send requests.
SpecPoll == InitCodec /\ [][NextPoll]_vars

\* Entries with any strings: each of name, address and version empty or
\* not, any kind.
AnyEntries ==
  { discovery_info(n, a, k, v) :
      n \in {<<>>, <<"a">>}, a \in {<<>>, <<"x">>},
      k \in {PROTO_IMAGE_FAST, PROTO_IMAGE_RELIABLE, PROTO_USER},
      v \in {<<>>, ImageVersion} }

\* A call of the client with such an entry.
AnyEntryCall ==
  /\ dcl.pc = "idle"
  /\ dcl.calls < MaxEncoded
  /\ \E req \in Requests, di \in AnyEntries :
       /\ SendRequest(req, di)
       /\ dcl' = Calling(req, di, -1)
  /\ UNCHANGED <<servers, drx, dsrv, nforeign>>
  /\ UNCHANGED <<codecVars, relVars, fanVars, calcVars>>

NextInfo == AnyEntryCall \/ ClientReply \/ ProcessCall \/ ProcessPass

\* The directory serves a client whose entries may hold empty strings:
\* each request carries the entry as text and the directory decodes it.
SpecInfo == InitCodec /\ [][NextInfo]_vars

(***************************************************************************)
(* get_total_bytes is called on headers of any field values.               *)
(***************************************************************************)
\* get_total_bytes() is called on a header. The function reads nothing
\* but the header, so one call in a behaviour shows all it does.
TotalBytes ==
  /\ ~calc.called
  /\ \E w \in FieldVals, h \in FieldVals, c \in FieldVals, bc \in FieldVals,
        junk \in OverflowVals :
       calc' = [called |-> TRUE, i |-> image_header(w, h, c, bc, <<>>),
                out |-> get_total_bytes(image_header(w, h, c, bc, <<>>), junk).val]
  /\ UNCHANGED <<codecVars, relVars, fanVars, discVars>>

NextBytes == TotalBytes

SpecBytes == InitCodec /\ [][NextBytes]_vars

(***************************************************************************)
(* Properties of the frame codec.                                          *)
(***************************************************************************)
\* Whether a text holds a whitespace character.
HasSpace(t) == \E i \in 1..Len(t) : IsSpace(t[i])

\* Whether no header of frame f has whitespace in its name.
PlainNames(f) == \A i \in 1..Len(f.headers) : ~HasSpace(f.headers[i].name)

\* Whether no buffer of frame f is a borrowed one.
OwnedBuffers(f) == \A i \in 1..Len(f.data) : ~f.data[i].pre_allocated

\* The last call was a receive that decoded a frame sent and received with
\* default options into an empty frame.
DefaultRoundTrip ==
  /\ clast.kind = "frame"
  /\ clast.so = DefaultOptions
  /\ clast.ro = DefaultOptions
  /\ clast.d = EmptyFrame

\* C8 (as claimed): a frame encoded with default options and decoded with
\* default options into an empty frame comes out with the same descriptors
\* field by field, the same buffer contents and the same user data, whatever
\* its descriptor names are.
C8_RoundTripAnyFrame ==
  DefaultRoundTrip => clast.ok /\ clast.out = clast.f

\* The round trip of C8 for frames whose header names hold no whitespace.
RoundTripPlainNames ==
  DefaultRoundTrip /\ PlainNames(clast.f) => clast.ok /\ clast.out = clast.f

\* What a header with a blank in its name comes back as: the name is cut at
\* the blank.
RoundTripCutsName ==
  DefaultRoundTrip =>
    /\ Len(clast.out.headers) = Len(clast.f.headers)
    /\ \A i \in 1..Len(clast.f.headers) :
         clast.out.headers[i] =
           [clast.f.headers[i] EXCEPT !.name = TakeWord(SkipWs(@), <<>>).val]

\* C9 (as claimed): whichever sections are skipped on encode or on decode,
\* the decoded frame holds an empty value in exactly the skipped sections
\* and the sender's values in the others, whatever the frame object held
\* before the call. Stated for senders' names without whitespace and frame
\* objects without borrowed buffers.
C9_SkipSectionsAnyDestination ==
  clast.kind = "frame" /\ PlainNames(clast.f) /\ OwnedBuffers(clast.d) =>
    /\ clast.out.headers =
         IF clast.so.skip_headers \/ clast.ro.skip_headers THEN <<>> ELSE clast.f.headers
    /\ clast.out.data =
         IF clast.so.skip_data \/ clast.ro.skip_data THEN <<>> ELSE clast.f.data
    /\ clast.out.user_data =
         IF clast.so.skip_user_data \/ clast.ro.skip_user_data THEN <<>>
         ELSE clast.f.user_data

\* The skip options of C9 as the code has them: a receive that skips user
\* data leaves the frame object's user data as it was.
SkipSectionsAsCoded ==
  clast.kind = "frame" /\ PlainNames(clast.f) /\ OwnedBuffers(clast.d) =>
    /\ clast.out.headers =
         IF clast.so.skip_headers \/ clast.ro.skip_headers THEN <<>> ELSE clast.f.headers
    /\ clast.out.data =
         IF clast.so.skip_data \/ clast.ro.skip_data THEN <<>> ELSE clast.f.data
    /\ clast.out.user_data =
         IF clast.ro.skip_user_data THEN clast.d.user_data
         ELSE IF clast.so.skip_user_data THEN <<>> ELSE clast.f.user_data

RECURSIVE SumSeq(_)
SumSeq(s) == IF s = <<>> THEN 0 ELSE Head(s) + SumSeq(Tail(s))

\* The positions in q of the parts that end a message.
LastParts(q) == { i \in 1..Len(q) : ~q[i].more }

\* The positions at which the queued frames end, by their numbers of parts.
FrameEnds(n) == { SumSeq(SubSeq(n, 1, k)) : k \in 1..Len(n) }

\* C10: a receive consumes exactly the parts the encoding of the oldest
\* queued frame emitted, under every pair of sender and receiver options
\* and also when it reports failure for a truncated buffer, so the queue
\* always starts at the first part of a frame: its messages end exactly
\* where the queued frames end.
C10_StreamBoundary ==
  /\ clast.kind = "frame" => clast.used = clast.emitted
  /\ LastParts(subq) = FrameEnds(cparts)

\* C10's case: a receive of a frame with headers and buffers that failed
\* for a truncated buffer, with a further frame queued behind it.
C10_Witness ==
  /\ clast.kind = "frame"
  /\ ~clast.ok
  /\ clast.used > 4
  /\ subq # <<>>

\* The last call was a receive of a frame whose buffers were sent and were
\* received.
DataReceived ==
  /\ clast.kind = "frame"
  /\ ~clast.so.skip_data
  /\ ~clast.ro.skip_data

\* The buffers of the last receive that were received into borrowed memory.
BorrowedSlots ==
  { i \in 1..Min(Len(clast.f.data), Len(clast.d.data)) : clast.d.data[i].pre_allocated }

\* Whether the bytes sent for buffer i exceed the capacity of the frame
\* object's buffer i.
Truncated(i) == Len(clast.f.data[i].bytes) > Len(clast.d.data[i].bytes)

\* C11: a data part of S bytes received into a borrowed buffer of capacity
\* C < S leaves exactly the first C bytes of the part in the buffer and the
\* enclosing frame receive reports failure; with S <= C the bytes are in
\* the buffer, and a receive none of whose buffers is truncated reports
\* success.
C11_TruncatedReceive ==
  DataReceived =>
    /\ \A i \in BorrowedSlots :
         IF Truncated(i)
         THEN /\ ~clast.ok
              /\ clast.out.data[i].bytes =
                   SubSeq(clast.f.data[i].bytes, 1, Len(clast.d.data[i].bytes))
         ELSE SubSeq(clast.out.data[i].bytes, 1, Len(clast.f.data[i].bytes)) =
                clast.f.data[i].bytes
    /\ (\A i \in BorrowedSlots : ~Truncated(i)) => clast.ok

\* C11's case: a receive with one buffer filled to its capacity and one
\* buffer truncated.
C11_Witness ==
  /\ DataReceived
  /\ \E i \in BorrowedSlots : Truncated(i) /\ clast.d.data[i].bytes # <<>>
  /\ \E i \in BorrowedSlots :
       Len(clast.f.data[i].bytes) = Len(clast.d.data[i].bytes)

\* C12 (as claimed): the decode of a message with fewer parts than a frame
\* has terminates and reports failure: the call neither stays in a receive
\* with nothing queued nor takes parts of a message queued behind it.
C12_ShortDecodeTerminates ==
  /\ clast.kind # "hung"
  /\ clast.kind = "short" => ~clast.ok /\ clast.used <= clast.emitted

\* The decode of a short message as the code has it: the call returns only
\* after it took parts of the messages queued behind the short one.
ShortDecodeAsCoded ==
  /\ clast.kind = "hung" => subq = <<>>
  /\ clast.kind = "short" => clast.used > clast.emitted

\* A decode of a short message that returned success.
ShortDecodeSucceeds == clast.kind = "short" /\ clast.ok

(***************************************************************************)
(* Properties of the fan-out model.                                        *)
(***************************************************************************)
RECURSIVE FrameTags(_, _)
\* The user data parts of the messages queued in q: the first part of each.
FrameTags(q, first) ==
  IF q = <<>> THEN <<>>
  ELSE (IF first THEN <<Head(q).data>> ELSE <<>>) \o FrameTags(Tail(q), ~Head(q).more)

\* The user data of the frames published after consumer c subscribed.
TagsSince(c) == { StrOfNat(k) : k \in (joined[c] + 1)..npub }

\* The consumers for which the frame of the last publish call is queued.
ReachedByLast ==
  { c \in Consumers :
      FrameTags(fanq[c], TRUE) # <<>>
        /\ FrameTags(fanq[c], TRUE)[Len(FrameTags(fanq[c], TRUE))] = StrOfNat(npub) }

\* C13: a publish of the fast server returns success whatever its timeout
\* and min_serve are and however many consumers are subscribed, none
\* included; its frame is queued for exactly the consumers subscribed at
\* the call; and a consumer never has queued, nor receives, a frame
\* published before it subscribed.
C13_FireAndForget ==
  /\ flast.kind = "publish" =>
       flast.ok /\ ReachedByLast = { c \in subs : joined[c] < npub }
  /\ \A c \in Consumers :
       \A i \in 1..Len(FrameTags(fanq[c], TRUE)) :
         FrameTags(fanq[c], TRUE)[i] \in TagsSince(c)
  /\ flast.kind = "frame" => flast.out.user_data \in TagsSince(flast.c)

\* C13's case: a publish with fewer subscribers than min_serve, one of
\* which subscribed after an earlier publish.
C13_Witness ==
  /\ flast.kind = "publish"
  /\ flast.min_serve > Cardinality(subs)
  /\ flast.timeout = -1
  /\ \E c \in subs : joined[c] > 0

\* A publish with no consumer subscribed.
PublishToNobody == flast.kind = "publish" /\ subs = {} /\ flast.ok

ReceiveFoundNothing == flast.kind = "empty" /\ ~flast.ok

\* A receive that returned failure with a frame taken off the queue: one of
\* the frame's buffers was truncated.
ReceiveFailedWithFrame == flast.kind = "frame" /\ ~flast.ok

(***************************************************************************)
(* Properties of the discovery model.                                      *)
(***************************************************************************)
\* The last pass of process_events handled a request of kind req.
HandledA(req) == dsrv.kind = "handled" /\ dsrv.req = req

\* The entries of regs at the positions of keep, in their order.
EntriesAt(regs, keep) ==
  [k \in 1..Cardinality(keep) |->
     regs[CHOOSE i \in keep : Cardinality({ j \in keep : j <= i }) = k]]

\* The reply of a register or unregister request: the identity, then true.
TrueReply == <<Part(dsrv.id, TRUE), Part(<<"1">>, FALSE)>>

\* C15: a register request with the directory's version tag appends its
\* entry at the end of the registry, also when an equal entry or one of
\* the same address is registered: the registry grows by exactly that
\* entry, the earlier entries stay as they were, and the reply is true.
C15_RegisterAppends ==
  HandledA(ReqRegister) =>
    /\ dsrv.di = dsrv.sent.di
    /\ Len(servers) = Len(dsrv.before) + 1
    /\ SubSeq(servers, 1, Len(dsrv.before)) = dsrv.before
    /\ servers[Len(servers)] = dsrv.sent.di
    /\ dsrv.wire = TrueReply

\* C15's case: an entry is registered that the registry holds already.
C15_Witness ==
  /\ HandledA(ReqRegister)
  /\ \E i \in 1..Len(dsrv.before) : dsrv.before[i] = dsrv.di

\* C16: an unregister request removes every entry whose address equals
\* the payload's, whatever its name, kind and version, leaves the other
\* entries in their order, and replies true, also when none matched.
C16_UnregisterByAddress ==
  HandledA(ReqUnregister) =>
    /\ dsrv.di = dsrv.sent.di
    /\ servers =
         EntriesAt(dsrv.before,
                   { i \in 1..Len(dsrv.before) :
                       dsrv.before[i].address # dsrv.sent.di.address })
    /\ dsrv.wire = TrueReply

\* C16's case: an entry of another name is removed and an entry of
\* another address is kept.
C16_Witness ==
  /\ HandledA(ReqUnregister)
  /\ Len(dsrv.before) = 2
  /\ Len(servers) = 1
  /\ \E i \in 1..2 : /\ dsrv.before[i].address = dsrv.di.address
                      /\ dsrv.before[i].name # dsrv.di.name

\* An unregister request that matched no entry.
UnregisterNoMatch ==
  HandledA(ReqUnregister) /\ servers = dsrv.before /\ servers # <<>>

\* The registry entries the query of the last pass asks for.
Asked ==
  EntriesAt(dsrv.before,
            { i \in 1..Len(dsrv.before) :
                /\ dsrv.before[i].name = dsrv.sent.di.name
                /\ dsrv.before[i].protocol_type = dsrv.sent.di.protocol_type
                /\ dsrv.before[i].protocol_version = dsrv.sent.di.protocol_version })

\* C17: the reply to a find request lists exactly the registry entries
\* whose name, kind and version equal the query's, the address not being
\* compared, in registration order with duplicates; its flag is true
\* exactly when the list is not empty; the registry stays as it was.
C17_FindListsMatches ==
  HandledA(ReqFind) =>
    /\ dsrv.di = dsrv.sent.di
    /\ servers = dsrv.before
    /\ dsrv.wire =
         <<Part(dsrv.id, TRUE), Part(IF Asked # <<>> THEN <<"1">> ELSE <<"0">>, TRUE),
           Part(StrOfNat(Len(Asked)), TRUE)>>
           \o [i \in 1..Len(Asked) |-> Part(InfoToStr(Asked[i]), TRUE)]
           \o <<Part(<<>>, FALSE)>>

\* C17's case: a find whose reply lists two entries of different
\* addresses while the registry holds no other entry.
C17_Witness ==
  /\ HandledA(ReqFind)
  /\ Len(Asked) = 2
  /\ Asked[1].address # Asked[2].address

\* A find whose reply lists nothing although the registry holds an entry
\* of the query's address.
FindNoMatch ==
  /\ HandledA(ReqFind)
  /\ Asked = <<>>
  /\ \E i \in 1..Len(servers) : servers[i].address = dsrv.di.address

\* The parts the ROUTER socket queues for the request p.
PendingParts(p) == RouterIn(p.id, RequestParts(p.v, p.req, p.di))

RECURSIVE AllPending(_)
\* The parts of the requests of the sequence reqs.
AllPending(reqs) ==
  IF reqs = <<>> THEN <<>> ELSE PendingParts(Head(reqs)) \o AllPending(Tail(reqs))

\* C18: a request whose version tag differs from the directory's is
\* ignored: no reply is sent and the registry is unchanged; when
\* process_events returns all its parts have been read; and the requests
\* behind it are read from their first part and handled as they were
\* sent.
C18_ForeignVersionIgnored ==
  /\ dsrv.sent.v # DiscoveryVersion /\ dsrv.kind # "none" =>
       dsrv.kind = "ignored" /\ dsrv.wire = <<>> /\ servers = dsrv.before
  /\ dsrv.pc = "idle" => ~dsrv.half
  /\ dinbox = IF dsrv.half
               THEN SubSeq(PendingParts(Head(dpend)), 3, 4) \o AllPending(Tail(dpend))
               ELSE AllPending(dpend)
  /\ dsrv.kind = "handled" =>
       /\ dsrv.sent.v = DiscoveryVersion
       /\ dsrv.id = dsrv.sent.id
       /\ dsrv.req = dsrv.sent.req
       /\ dsrv.di = dsrv.sent.di

\* C18's case: a request is handled in the pass after the one that ended
\* the reading of an ignored request.
C18_Witness ==
  /\ dsrv.kind = "handled"
  /\ dsrv.behind
  /\ dsrv.wire # <<>>

\* The client's last call has returned.
CallReturned == dcl.pc = "idle" /\ dcl.calls > 0

\* The parts of a reply that says false, and for find lists nothing.
NegativeReply(req) ==
  IF req = ReqFind THEN Tail(FindReply(DiscClient, <<>>)) ELSE SendBool(FALSE, FALSE)

\* What the client's last call had returned, and left in results, had it
\* read such a reply.
NegativeOutcome ==
  ReadReply(dcl.req, Socket(NegativeReply(dcl.req)), dcl.results, FALSE, 0)

\* C19 (as claimed): the outcome of a call that read no reply within its
\* timeout, the value returned and the results, differs from the outcome
\* of the same call reading a reply that says false or lists nothing.
C19_NoReplyDistinct ==
  CallReturned /\ ~dcl.replied =>
    <<dcl.ret, dcl.results>> # <<NegativeOutcome.ret, NegativeOutcome.c>>

\* A call that read no reply returns false.
NoReplyReturnsFalse == CallReturned /\ ~dcl.replied => ~dcl.ret

\* C20 (as claimed): with every request handled before the client reads
\* its reply, register_server(e) returns true, find_servers for e returns
\* e, find_servers for the other kind returns nothing, unregister_server
\* for e's address returns true and find_servers for e after that returns
\* nothing.
C20_EndToEnd ==
  CallReturned /\ dcl.intime =>
    /\ dcl.calls = 1 => dcl.ret
    /\ dcl.calls = 2 => dcl.results = <<dcl.e>>
    /\ dcl.calls = 3 => dcl.results = <<>>
    /\ dcl.calls = 4 => dcl.ret
    /\ dcl.calls = 5 => dcl.results = <<>>

\* The first three calls of the scenario do what C20 says.
ScenarioUpToThird ==
  CallReturned /\ dcl.intime =>
    /\ dcl.calls = 1 => dcl.ret
    /\ dcl.calls = 2 => dcl.ret /\ dcl.results = <<dcl.e>>
    /\ dcl.calls = 3 => dcl.results = <<>>

\* The fourth call: unregister_server returns false although the server
\* has handled the request and replied true.
UnregisterReturnsFalse ==
  CallReturned /\ dcl.intime /\ dcl.calls = 4 /\ ~dcl.ret

\* After a find_servers call that read its reply, the empty part that ends
\* the reply is left queued at the client.
FindLeavesEndMarker ==
  CallReturned /\ dcl.intime /\ dcl.calls = 2 => drx = SendEmpty(FALSE)

\* The parts of wire are one message: every part but the last says more.
OneMessage(wire) ==
  /\ wire # <<>>
  /\ \A i \in 1..Len(wire) : wire[i].more = (i < Len(wire))

\* C21: when process_events returns, every request that was unread when
\* it was called has been read; each pass reads the oldest unread request;
\* a register, find or unregister request with the directory's version
\* is answered by one message that begins with the identity of its
\* sender; a call that finds nothing pending returns after its poll with
\* the registry as it was and nothing sent.
C21_ProcessEventsDrains ==
  /\ dsrv.pc = "idle" => dsrv.left = 0
  /\ dsrv.kind # "none" => dsrv.id \in { dsrv.sent.id, dsrv.sent.req }
  /\ dsrv.kind = "handled" =>
       /\ <<dsrv.id, dsrv.v, dsrv.req, dsrv.di>>
            = <<dsrv.sent.id, dsrv.sent.v, dsrv.sent.req, dsrv.sent.di>>
       /\ OneMessage(dsrv.wire)
       /\ dsrv.wire[1].data = dsrv.sent.id
  /\ dsrv.nopoll =>
       dsrv.pc = "idle" /\ servers = dsrv.before /\ dsrv.wire = <<>>

\* C21's case: a call that found three requests unread, one of them of
\* another version, has returned, its last pass having sent a reply.
C21_Witness ==
  /\ dsrv.pc = "idle"
  /\ dsrv.atcall = 3
  /\ dsrv.kind = "handled"
  /\ dsrv.wire # <<>>

\* A call that found nothing pending has returned while the registry
\* holds an entry.
PolledNothing == dsrv.nopoll /\ servers # <<>>

\* The client's first call has returned false for lack of a reply, and no
\* other call was made.
OnlyCallFailed == CallReturned /\ dcl.calls = 1 /\ ~dcl.replied

\* C22 (as claimed): a call of the discovery client that reports failure
\* because no reply arrived within its timeout leaves the caller's result
\* list as it was and does not change the registry, then or later: after
\* a first call that failed so, the registry is still empty.
C22_AbsenceLeavesNoTrace ==
  OnlyCallFailed => dcl.results = <<>> /\ servers = <<>>

\* The caller's side of it: the result list is as it was.
NoReplyKeepsResults == OnlyCallFailed => dcl.results = <<>>

\* register_server returned false for lack of a reply and the registry
\* holds its entry.
FailedRegisterRegistered ==
  OnlyCallFailed /\ dcl.req = ReqRegister /\ servers = <<dcl.di>>

\* An entry none of whose strings is empty.
NoEmptyField(e) == e.name # <<>> /\ e.address # <<>> /\ e.protocol_version # <<>>

\* C23 (as claimed): the entry the directory decodes from the text of a
\* request has the four field values of the entry the client encoded,
\* for any strings, the empty string included.
C23_InfoRoundTrip ==
  dsrv.kind = "handled" => dsrv.di = dsrv.sent.di

\* The round trip yields the entry when none of its strings is empty.
InfoRoundTripNoEmpty ==
  dsrv.kind = "handled" /\ NoEmptyField(dsrv.sent.di) => dsrv.di = dsrv.sent.di

\* An entry with an empty name is decoded with its address as name, its
\* version as address and its kind as version.
EmptyNameShifts ==
  /\ dsrv.kind = "handled"
  /\ dsrv.sent.di = discovery_info(<<>>, <<"x">>, PROTO_IMAGE_FAST, ImageVersion)
  /\ dsrv.di.name = <<"x">>
  /\ dsrv.di.address = ImageVersion
  /\ dsrv.di.protocol_version = <<"0">>

\* The client's first call has returned having read its reply.
FirstCallReplied == CallReturned /\ dcl.calls = 1 /\ dcl.replied

\* The client waits in its second call, the request of which the
\* directory has not read.
SecondCallUnread ==
  /\ dcl.pc = "wait"
  /\ dcl.calls = 2
  /\ \E k \in 1..Len(dpend) : dpend[k].id = DiscClient

\* C28 (as claimed): find_servers reads every part of the reply to a find
\* request: after a first call that read its reply nothing is queued at
\* the client, and the second call finds no data pending before the
\* directory has read its request.
C28_FindReplyConsumed ==
  /\ FirstCallReplied => drx = <<>>
  /\ SecondCallUnread => ~IsDataPending(drx)

\* register_server and unregister_server read every part of their reply.
BoolReplyConsumed ==
  FirstCallReplied /\ dcl.req # ReqFind => drx = <<>>

\* After find_servers the part that ends the array of the reply is queued
\* at the client, whatever the reply lists.
FindReplyLeavesEnd ==
  FirstCallReplied /\ dcl.req = ReqFind => drx = SendEmpty(FALSE)

\* The call after a find_servers call finds that part pending before the
\* directory has read its request.
SecondCallSeesStalePart == SecondCallUnread /\ drx = SendEmpty(FALSE)

\* The directory has not read the request of the client's last call.
OwnRequestUnread == \E k \in 1..Len(dpend) : dpend[k].id = DiscClient

\* C29 (as claimed): what a call of the client returns is taken from the
\* directory's reply to the request of that call, also after a call that
\* timed out: a call that returns having read a reply has had its
\* request read and answered by the directory.
C29_ReplyOfOwnRequest ==
  CallReturned /\ dcl.replied => ~OwnRequestUnread

\* unregister_server has returned true, read from the reply to the
\* register request of the call before, which had timed out; the
\* directory has not read the unregister request and holds the entry.
StaleReplyRead ==
  /\ CallReturned
  /\ dcl.calls = 2
  /\ dcl.replied
  /\ dcl.req = ReqUnregister
  /\ dcl.ret
  /\ OwnRequestUnread
  /\ servers = <<dcl.di>>
  /\ drx = <<>>

\* While no call has timed out and no find reply was read, a call that
\* read a reply has had its request read.
ReplyOfOwnRequestInTime ==
  CallReturned /\ dcl.replied /\ dcl.calls = 1 => ~OwnRequestUnread

(***************************************************************************)
(* Properties of get_total_bytes.                                          *)
(***************************************************************************)
\* The four factors of the header of the last call.
Factors == <<calc.i.bytes_per_channel, calc.i.channels, calc.i.width, calc.i.height>>

RECURSIVE IsProduct(_, _)
\* n is the product of the positive numbers of fs, as a number of any
\* size: n is divided by each in turn.
IsProduct(fs, n) ==
  IF fs = <<>> THEN n = 1
  ELSE n % Head(fs) = 0 /\ IsProduct(Tail(fs), n \div Head(fs))

\* n is the mathematical product of the numbers of fs, none negative.
IsMathProduct(fs, n) ==
  IF \E k \in 1..Len(fs) : fs[k] = 0 THEN n = 0 ELSE n > 0 /\ IsProduct(fs, n)

RECURSIVE Fits(_, _)
\* The products of acc and the numbers of fs, taken one after the other,
\* fit an int.
Fits(fs, acc) ==
  IF fs = <<>> THEN TRUE
  ELSE /\ Head(fs) = 0 \/ acc <= IntMax \div Head(fs)
       /\ Fits(Tail(fs), acc * Head(fs))

\* C24 (as claimed): get_total_bytes returns the mathematical product of
\* the four fields, whatever values that fit an int they hold.
C24_TotalBytesIsProduct ==
  calc.called => IsMathProduct(Factors, calc.out)

\* It returns the product when no partial product exceeds the largest int.
TotalBytesWhenItFits ==
  calc.called /\ Fits(Factors, 1) => IsMathProduct(Factors, calc.out)

\* A call on a 65536 x 65536 image of one channel and one byte returned 0.
TotalBytesOverflowed ==
  /\ calc.called
  /\ calc.i = image_header(65536, 65536, 1, 1, <<>>)
  /\ calc.out = 0

(***************************************************************************)
(* Properties of the reliable execution model. publish is about to return  *)
(* srv.ok when srv.pc = "send" and srv.todo is empty.                      *)
(***************************************************************************)
\* publish has left its loop and sent to every identity it sends to.
AtPublishReturn == srv.pc = "send" /\ srv.todo = {}

\* C1: when publish returns failure, the call has sent no frame part to any
\* consumer, the consumers whose readiness signal it read included.
C1_FailsClosed ==
  srv.pc = "send" /\ ~srv.ok => \A c \in Consumers : srv.copies[c] = <<>>

\* C1's case: publish returns failure with min_serve 2 after it read the
\* readiness signal of one of two connected consumers.
C1_Witness ==
  /\ AtPublishReturn
  /\ ~srv.ok
  /\ conns = Consumers
  /\ Cardinality(srv.clients) = 1
  /\ srv.min_serve = 2

\* C2: when publish returns success, it has sent exactly one message, the
\* encoding of the frame it was given, to each identity whose readiness
\* signal it read
\* and none to any other identity, also when it read several signals of one
\* identity; and when its inner loop ended no signal was left queued.
C2_OneCopyEach ==
  AtPublishReturn /\ srv.ok =>
    /\ \A c \in Consumers :
         srv.copies[c] = IF c \in srv.clients
                         THEN <<SendFrame(srv.fo, pubLog[Len(pubLog)].f)>>
                         ELSE <<>>
    /\ srv.left = 0

\* C2's case: publish returns success for a frame with a buffer after it
\* read the signals of both consumers, more than one of them from the same
\* consumer.
C2_Witness ==
  /\ AtPublishReturn
  /\ srv.ok
  /\ srv.dup
  /\ srv.clients = Consumers
  /\ srv.f.data # <<>>

\* C3: publish returns success if and only if the number of distinct ready
\* identities is at least min_serve when its loop ends, also when the last
\* round found the timeout expired.
C3_SuccessIffQuorum ==
  srv.pc = "send" => (srv.ok <=> Cardinality(srv.clients) >= srv.min_serve)

\* C3's case: with timeout 500 and min_serve 2 the loop ends with the
\* timeout expired and both consumers ready, and publish returns success.
C3_Witness ==
  /\ AtPublishReturn
  /\ srv.ok
  /\ ~srv.continue_wait
  /\ srv.timeout = 500
  /\ srv.min_serve = 2

\* The identity of the one consumer of a single-consumer behaviour.
TheConsumer == <<"c", "1">>

\* C4 (as claimed): with one consumer, publish(f, -1, 1) does not leave its
\* loop before it read a readiness signal of the consumer, it returns
\* success, and the frame the consumer's first successful receive returns
\* is the frame of this first publish call.
C4_SingleConsumerIdentical ==
  conns = {TheConsumer} /\ srv.pc = "send" /\ srv.timeout = -1 /\ srv.min_serve = 1 =>
    /\ srv.ok
    /\ TheConsumer \in srv.clients
    /\ srv.calls = 1 /\ recvLog[TheConsumer] # <<>> =>
         recvLog[TheConsumer][1] = srv.f

\* C4 for frames whose header names hold no whitespace.
SingleConsumerPlainNames ==
  conns = {TheConsumer} /\ srv.pc = "send" /\ srv.timeout = -1 /\ srv.min_serve = 1 =>
    /\ srv.ok
    /\ TheConsumer \in srv.clients
    /\ srv.calls = 1 /\ recvLog[TheConsumer] # <<>> /\ PlainNames(srv.f) =>
         recvLog[TheConsumer][1] = srv.f

\* The user data of the frames of a log.
TagsOf(log) == [i \in 1..Len(log) |-> log[i].user_data]

RECURSIVE QueuedTags(_, _)
\* The user data parts of the frames queued in q: the first part of each
\* message.
QueuedTags(q, first) ==
  IF q = <<>> THEN <<>>
  ELSE (IF first THEN <<Head(q).data>> ELSE <<>>) \o QueuedTags(Tail(q), ~Head(q).more)

\* The user data of the frame publish is about to send to c, if any.
SendingTags(c) == IF srv.pc = "send" /\ c \in srv.todo THEN <<srv.f.user_data>> ELSE <<>>

\* The user data of the frames received by, queued for and about to be
\* sent to c, in this order.
DeliveredTags(c) == TagsOf(recvLog[c]) \o QueuedTags(rx[c], TRUE) \o SendingTags(c)

RECURSIVE FramesOf(_, _)
\* The frames of the entries of log whose ready identities include c.
FramesOf(log, c) ==
  IF log = <<>> THEN <<>>
  ELSE (IF c \in Head(log).to THEN <<Head(log).f>> ELSE <<>>) \o FramesOf(Tail(log), c)

\* C5 (as claimed): with one consumer, the frames of the publish calls that
\* returned success are, in publish order and each once, the frames the
\* consumer's receive calls returned followed by those still on their way
\* to it. Frames are told apart by their user data.
C5_NoFrameLost ==
  conns = {TheConsumer} =>
    DeliveredTags(TheConsumer) = TagsOf([i \in 1..Len(pubLog) |-> pubLog[i].f])

\* No loss as the code has it: each consumer is delivered, in publish order
\* and each once, the frames of the successful publish calls that read a
\* readiness signal of it.
NoFrameLostWhenReady ==
  \A c \in conns : DeliveredTags(c) = TagsOf(FramesOf(pubLog, c))

\* C6 (as claimed): with any negative timeout and min_serve >= 1, publish
\* leaves its loop only with the quorum met and so never returns failure.
C6_NegativeTimeoutNeverFails ==
  srv.pc = "send" /\ srv.timeout < 0 /\ srv.min_serve >= 1 => srv.ok

\* C6 for the timeout -1.
DefaultTimeoutNeverFails ==
  srv.pc = "send" /\ srv.timeout = -1 => srv.ok

\* C7: a receive call has sent nothing before it sends its readiness
\* signal, and from then on, while it polls and when it has returned
\* success or failure, it has sent exactly one message of one empty part.
C7_OneSignalBeforePoll ==
  \A c \in Consumers :
    /\ cli[c].pc = "ready" => cli[c].sent = <<>>
    /\ cli[c].pc = "poll" \/ (cli[c].pc = "idle" /\ cli[c].calls > 0) =>
         cli[c].sent = <<[data |-> <<>>, more |-> FALSE]>>

\* C7's case: a consumer whose first receive call returned a frame and
\* whose second returned failure.
C7_Witness ==
  \E c \in conns :
    /\ cli[c].pc = "idle"
    /\ cli[c].calls = 2
    /\ cli[c].ret = "false"
    /\ recvLog[c] # <<>>


\* A client's receive returned false for lack of data before the first
\* publish call, and its readiness signal is queued at the server.
FailedReceiveLeavesSignal ==
  \E c \in conns :
    /\ cli[c].pc = "idle"
    /\ cli[c].ret = "false"
    /\ srv.calls = 0
    /\ inbox = RouterIn(c, ReadySignal)

\* A client's receive returned false for lack of data, no frame was ever
\* sent to it, it is outside receive, and a publish call holds it in
\* clients and is about to send it the frame.
FailedReceiveCountsReady ==
  \E c \in conns :
    /\ cli[c].pc = "idle"
    /\ cli[c].ret = "false"
    /\ cli[c].calls = 1
    /\ recvLog[c] = <<>>
    /\ rx[c] = <<>>
    /\ srv.calls = 1
    /\ srv.pc = "send"
    /\ srv.ok
    /\ c \in srv.todo


\* The outer loop of publish has gone round again after the timer was
\* read as srv.ticks, with a timeout that is not negative.
WaitsOn == srv.pc = "poll" /\ srv.timeout >= 0 /\ srv.ticks > 0

\* C25 (as claimed): elapsed_msecs is the elapsed time in milliseconds,
\* floor(1000 * t / CLOCKS_PER_SEC) for t ticks, so publish goes on
\* waiting only while fewer than timeout milliseconds have elapsed.
C25_ElapsedMilliseconds ==
  WaitsOn => (1000 * srv.ticks) \div ClocksPerSec < srv.timeout

\* publish goes on waiting while the whole seconds elapsed, taken as
\* milliseconds, are below the timeout.
WaitsByWholeSeconds ==
  WaitsOn => (srv.ticks \div ClocksPerSec) * 1000 < srv.timeout

\* publish with timeout 500 goes on waiting after 600 ms.
WaitsPastTimeout == WaitsOn /\ srv.timeout = 500 /\ srv.ticks = 600


\* C26 (as claimed): with a timeout T that is not negative publish leaves
\* its loop once the elapsed time has reached T: the outer loop goes round
\* again only when the timer showed less than T milliseconds, and with
\* T = 0 never.
C26_ReturnsAtTimeout ==
  [][srv.pc = "check" /\ srv.timeout >= 0 /\ srv'.pc = "poll" =>
       (1000 * srv'.ticks) \div ClocksPerSec < srv.timeout]_vars

\* With timeout 0 the outer loop of publish runs once.
ZeroTimeoutOneRound ==
  [][srv.pc = "check" /\ srv.timeout = 0 => srv'.pc # "poll"]_vars

\* A publish call with a timeout that is not negative returns, its clock
\* advancing.
TimedPublishReturns ==
  (srv.pc = "poll" /\ srv.timeout >= 0) ~> (srv.pc = "idle")


\* The consumer c waits in receive with timeout -1 and nothing queued.
Blocked(c) == cli[c].pc = "poll" /\ cli[c].timeout = -1 /\ rx[c] = <<>>

\* The readiness signal of c is queued at the server.
SignalQueued(c) ==
  \E k \in 1..Len(inbox) : inbox[k].data = c /\ inbox[k].more

\* C27 (as claimed): the readiness of a consumer that waits in receive
\* with timeout -1 is not lost with a publish call that failed: its
\* signal is queued at the server or a publish call under way holds its
\* identity in clients, so that the next publish call serves it.
C27_ReadinessNotLost ==
  \A c \in conns : Blocked(c) => SignalQueued(c) \/ c \in srv.clients

\* The only consumer waits in its first receive with timeout -1, its
\* signal read by the first publish call, which failed; the second call,
\* publish(f, -1, 1), waits for a signal: neither will return.
BothWait ==
  /\ conns = {TheConsumer}
  /\ Blocked(TheConsumer)
  /\ cli[TheConsumer].calls = 1
  /\ srv.calls = 2
  /\ srv.pc = "poll"
  /\ srv.timeout = -1
  /\ srv.min_serve = 1
  /\ inbox = <<>>

=============================================================================
